---- MODULE Spec2Model ----
(***************************************************************************)
(* Model of the retrieval engine and the /ask intent router of GenAI_ERT.  *)
(*                                                                         *)
(*   summarization/summarize.py   build_faiss_index_for_ticker,            *)
(*                                retrieve_context_for_ticker              *)
(*   api/ask_handlers.py          the handlers and ASK_HANDLERS            *)
(*   api/main.py                  the /ask endpoint                        *)
(*   ingestion/edgar_fetch.py     fetch_for_ticker, extract_fact_request   *)
(*   summarization/extract_metrics.py   the structured-fact lookups        *)
(*                                                                         *)
(* Text is a sequence of one-character strings, so that strip(), slicing   *)
(* and chunking are computed on characters as the code computes them.      *)
(***************************************************************************)
EXTENDS Integers, Sequences, FiniteSets, TLC

VARIABLES
    docs,       \* docs[t]: the directory ingestion/data/<t> and its files
    idxFile,    \* idxFile[t]: faiss_index/<t>/<t>.index : Absent, Partial, or a written index
    metaFile,   \* metaFile[t]: faiss_index/<t>/<t>.meta.json : Absent, Partial, or written metadata
    bpc,        \* bpc[b]: position of build call b inside build_faiss_index_for_ticker
    bloc,       \* bloc[b]: the locals of build call b
    blast,      \* blast[t]: how the last finished build of ticker t ended ("none" before any)
    nbuilds,    \* number of build calls started so far (names the builds)
    qpc,        \* position of the query call inside retrieve_context_for_ticker
    qloc,       \* the locals of the query call
    qres,       \* outcome of the last finished query call
    ndocops,    \* number of document-store changes so far
    cdoc,       \* chunker: the raw text of the file being chunked
    csize,      \* chunker: the chunk_size of the call
    cpc,        \* chunker: "start", then "chunked"
    cout,       \* chunker: the chunks produced for the file
    cikMap,     \* the tickers the SEC ticker list knows (get_cik_for_ticker finds)
    apc,        \* position of the /ask request inside ask()
    areq,       \* the request: its question and the tickers extracted from it
    ati,        \* /ask: position in the ingestion loop over the tickers
    ahi,        \* /ask: position in the dispatch loop over ASK_HANDLERS
    evaluated,  \* /ask: the handlers whose can_handle was evaluated, in order
    invoked,    \* /ask: the handlers whose handle was invoked, in order
    hcall,      \* the last handle() call: handler, arguments and outcome
    aresp,      \* the response of the request
    _embedder,  \* the module global _embedder: 0 for None, else the instance
    constructed,\* how often line 32 constructed a SentenceTransformer
    returned,   \* the instances _get_embedder has returned
    ecalls,     \* number of calls of _get_embedder so far
    epc,        \* epc[w]: position of worker thread w inside _get_embedder
    eloc,       \* eloc[w]: the instance thread w constructed, not yet assigned
    xfiles,     \* the XBRL instance files directly under ingestion/data
    xcase,      \* TRUE when Path.glob matches file names case-sensitively (POSIX)
    xcall,      \* the last structured-fact call: arguments and outcome
    fcall,      \* the last fetch_for_ticker call: arguments, store before and after
    fetched,     \* the tickers for which an earlier fetch call downloaded the filing
    icall,      \* the last /ingest request: the paths fetch returned, the keys uploaded and reported
    freq        \* the last call of extract_fact_request: the question and what it returned

indexVars == <<docs, idxFile, metaFile, bpc, bloc, blast, nbuilds, qpc, qloc, qres, ndocops>>
chunkVars == <<cdoc, csize, cpc, cout>>

askVars   == <<cikMap, apc, areq, ati, ahi, evaluated, invoked, hcall, aresp>>

embedVars == <<_embedder, constructed, returned, ecalls, epc, eloc>>

xbrlVars  == <<xfiles, xcase, xcall>>

fetchVars == <<fcall, fetched, icall, freq>>

vars == <<indexVars, chunkVars, askVars, embedVars, xbrlVars, fetchVars>>

\* What the actions of the index leave alone.
notIndexVars == <<chunkVars, askVars, embedVars, xbrlVars, fetchVars>>

----------------------------------------------------------------------------
(* Bounds *)

MaxDocLen   == 3    \* longest document text
ChunkSize   == 2    \* chunk_size used by build and retrieve (the code's default is 1000)
MaxChunkSize == 3   \* largest chunk_size the chunker is called with
TopK        == 2    \* top_k used by retrieve (the code's default is 5)
MaxBuilds   == 2    \* build calls started in one behaviour
MaxDocOps   == 2    \* document-store changes in one behaviour
MaxQuestionLen == 3 \* most words in a question

----------------------------------------------------------------------------
(* Text *)

Alphabet == {" ", "a", "b"}

Min(a, b) == IF a < b THEN a ELSE b
Max(a, b) == IF a > b THEN a ELSE b

\* All texts of length at most n.
TextsUpTo(n) == UNION {[1..k -> Alphabet] : k \in 0..n}

\* str.isspace for one character
IsSpace(c) == c = " "

RECURSIVE LStrip(_)
LStrip(s) == IF s # <<>> /\ IsSpace(Head(s)) THEN LStrip(Tail(s)) ELSE s

RECURSIVE RStrip(_)
RStrip(s) == IF s # <<>> /\ IsSpace(s[Len(s)]) THEN RStrip(SubSeq(s, 1, Len(s) - 1)) ELSE s

\* str.strip()
Strip(s) == RStrip(LStrip(s))

\* Python s[a:b] for 0 <= a <= b (0-based, end exclusive, clamped to the length)
Slice(s, a, b) == SubSeq(s, a + 1, Min(b, Len(s)))

\* Python range(start, stop, step) as a sequence
RECURSIVE Range(_, _, _)
Range(start, stop, step) ==
    IF start >= stop THEN <<>> ELSE <<start>> \o Range(start + step, stop, step)

RECURSIVE Concat(_)
Concat(ss) == IF ss = <<>> THEN <<>> ELSE Head(ss) \o Concat(Tail(ss))

CeilDiv(n, c) == (n + c - 1) \div c

----------------------------------------------------------------------------
(* The document store *)

Tickers == {"AAPL", "MSFT"}

\* A file of the directory is <<text>>, and <<>> when the file does not exist.
NoFile == <<>>

\* File names in a ticker's directory, in the order iterdir() lists them.
FileOrder == <<"a.xml", "b.htm", "c.json">>
FileNames == {FileOrder[i] : i \in 1..Len(FileOrder)}

\* Path.suffix.lower()
Suffix(f) == CASE f = "a.xml"  -> ".xml"
               [] f = "b.htm"  -> ".htm"
               [] f = "c.json" -> ".json"

\* summarize.py:64
EligibleSuffixes == {".html", ".htm", ".xml", ".xbrl"}

\* The document texts the store is changed to in the index specification.
StoreTexts == {<<>>, <<" ", "a", "b">>, <<"a", "b", "a">>}

\* A directory: whether it exists, and its files.
EmptyDir == [exists |-> TRUE, files |-> [f \in FileNames |-> NoFile]]
NoDir    == [exists |-> FALSE, files |-> [f \in FileNames |-> NoFile]]

WithFile(dir, f, text) == [exists |-> TRUE, files |-> [dir.files EXCEPT ![f] = <<text>>]]

----------------------------------------------------------------------------
(* Chunking and embedding *)

\* summarize.py:66-73: the chunks of one file, with their metadata
ChunksOfContent(content, chunk_size) ==
    LET starts == Range(0, Len(content), chunk_size)
    IN  [k \in 1..Len(starts) |->
            [text        |-> Slice(content, starts[k], starts[k] + chunk_size),
             chunk_index |-> starts[k] \div chunk_size]]

ChunksOfFile(raw, chunk_size) == ChunksOfContent(Strip(raw), chunk_size)

\* summarize.py:62-73: texts and metadata over the whole directory
RECURSIVE ScanFiles(_, _, _)
ScanFiles(dir, files, chunk_size) ==
    IF files = <<>> THEN <<>>
    ELSE LET f    == Head(files)
             rest == ScanFiles(dir, Tail(files), chunk_size)
         IN  IF dir.files[f] = NoFile \/ Suffix(f) \notin EligibleSuffixes
             THEN rest
             ELSE LET cs == ChunksOfFile(dir.files[f][1], chunk_size)
                  IN  [k \in 1..Len(cs) |->
                          [source |-> f, chunk_index |-> cs[k].chunk_index,
                           text |-> cs[k].text]] \o rest

\* The embedding of a text: a one-dimensional integer vector.
CharCode(c) == CASE c = " " -> 1 [] c = "a" -> 2 [] c = "b" -> 5

RECURSIVE Embed(_)
Embed(s) == IF s = <<>> THEN 0 ELSE CharCode(Head(s)) + 2 * Embed(Tail(s))

----------------------------------------------------------------------------
(* Persisted index files *)

Absent    == [state |-> "absent"]
Partial   == [state |-> "partial"]  \* opened for writing (truncated), not yet completely written
NotLoaded == [state |-> "none"]     \* a local of a query that holds no file contents yet

IsWritten(file) == file.state = "written"

\* A written index file: the vectors, in order.  gen, chunks and store are
\* history fields: the build call that wrote the file, the chunk each vector
\* was computed from, and the directory contents that build scanned.
IndexContent(gen, scanned, store) ==
    [state   |-> "written",
     gen     |-> gen,
     vectors |-> [k \in 1..Len(scanned) |-> Embed(scanned[k].text)],
     chunks  |-> scanned,
     store   |-> store]

\* A written metadata file: summarize.py:70-73, 91-92
MetaContent(gen, scanned) ==
    [state   |-> "written",
     gen     |-> gen,
     entries |-> [k \in 1..Len(scanned) |->
                     [source |-> scanned[k].source,
                      chunk_index |-> scanned[k].chunk_index]]]

----------------------------------------------------------------------------
(* build_faiss_index_for_ticker, summarize.py:35-94 *)

Builders == {"b1", "b2"}

IdleBuild == [ticker |-> "-", reset |-> FALSE, gen |-> 0, scanned |-> <<>>,
              store |-> NoDir, detached |-> FALSE, overlap |-> FALSE]

\* Builders other than b that are writing (at pcname) a file of ticker t that
\* its path still names.
OtherWriters(b, t, pcname) ==
    {o \in Builders \ {b} :
        bpc[o] = pcname /\ bloc[o].ticker = t /\ ~bloc[o].detached}

\* summarize.py:40-45: the call starts; no directory -> FileNotFoundError
BuildStart(b, t, reset) ==
    /\ bpc[b] = "idle"
    /\ nbuilds < MaxBuilds
    /\ nbuilds' = nbuilds + 1
    /\ IF ~docs[t].exists
       THEN /\ blast' = [blast EXCEPT ![t] = "FileNotFoundError"]
            /\ UNCHANGED <<bpc, bloc>>
       ELSE /\ bpc' = [bpc EXCEPT ![b] = "reset"]
            /\ bloc' = [bloc EXCEPT ![b] =
                           [IdleBuild EXCEPT !.ticker = t, !.reset = reset,
                                             !.gen = nbuilds + 1]]
            /\ UNCHANGED blast
    /\ UNCHANGED <<docs, idxFile, metaFile, qpc, qloc, qres, ndocops>>
    /\ UNCHANGED notIndexVars

\* summarize.py:59: if reset and idx_path.exists()
BuildResetCheck(b) ==
    /\ bpc[b] = "reset"
    /\ bpc' = [bpc EXCEPT ![b] =
                  IF bloc[b].reset /\ idxFile[bloc[b].ticker] # Absent
                  THEN "unlink" ELSE "scan"]
    /\ UNCHANGED <<docs, idxFile, metaFile, bloc, blast, nbuilds, qpc, qloc, qres, ndocops>>
    /\ UNCHANGED notIndexVars

\* summarize.py:60: idx_path.unlink(); the file may be gone by now
BuildUnlink(b) ==
    /\ bpc[b] = "unlink"
    /\ LET t == bloc[b].ticker IN
       IF idxFile[t] = Absent
       THEN /\ bpc' = [bpc EXCEPT ![b] = "idle"]
            /\ bloc' = [bloc EXCEPT ![b] = IdleBuild]
            /\ blast' = [blast EXCEPT ![t] = "FileNotFoundError"]
            /\ UNCHANGED idxFile
       ELSE /\ idxFile' = [idxFile EXCEPT ![t] = Absent]
            /\ bpc' = [bpc EXCEPT ![b] = "scan"]
            \* a writer that has the unlinked file open keeps writing to it,
            \* but the path no longer names that file
            /\ bloc' = [o \in Builders |->
                           IF o \in OtherWriters(b, t, "write_idx")
                           THEN [bloc[o] EXCEPT !.detached = TRUE]
                           ELSE bloc[o]]
            /\ UNCHANGED blast
    /\ UNCHANGED <<docs, metaFile, nbuilds, qpc, qloc, qres, ndocops>>
    /\ UNCHANGED notIndexVars

\* A scan that starts from the chunks of the index file already there when
\* reset is false, and adds the chunks of the store to them.
BuildScanAddsToPrior(b) ==
    /\ bpc[b] = "scan"
    /\ LET t       == bloc[b].ticker
           prior   == IF ~bloc[b].reset /\ IsWritten(idxFile[t])
                      THEN idxFile[t].chunks ELSE <<>>
           scanned == ScanFiles(docs[t], FileOrder, ChunkSize)
       IN  IF scanned = <<>>
           THEN /\ bpc' = [bpc EXCEPT ![b] = "idle"]
                /\ bloc' = [bloc EXCEPT ![b] = IdleBuild]
                /\ blast' = [blast EXCEPT ![t] = "no_chunks"]
           ELSE /\ bpc' = [bpc EXCEPT ![b] = "open_idx"]
                /\ bloc' = [bloc EXCEPT ![b].scanned = prior \o scanned,
                                        ![b].store = docs[t]]
                /\ UNCHANGED blast
    /\ UNCHANGED <<docs, idxFile, metaFile, nbuilds, qpc, qloc, qres, ndocops>>
    /\ UNCHANGED notIndexVars

\* summarize.py:62-81: read and chunk every eligible file, embed the chunks
BuildScan(b) ==
    /\ bpc[b] = "scan"
    /\ LET t       == bloc[b].ticker
           scanned == ScanFiles(docs[t], FileOrder, ChunkSize)
       IN  IF scanned = <<>>
           THEN /\ bpc' = [bpc EXCEPT ![b] = "idle"]
                /\ bloc' = [bloc EXCEPT ![b] = IdleBuild]
                /\ blast' = [blast EXCEPT ![t] = "no_chunks"]
           ELSE /\ bpc' = [bpc EXCEPT ![b] = "open_idx"]
                /\ bloc' = [bloc EXCEPT ![b].scanned = scanned, ![b].store = docs[t]]
                /\ UNCHANGED blast
    /\ UNCHANGED <<docs, idxFile, metaFile, nbuilds, qpc, qloc, qres, ndocops>>
    /\ UNCHANGED notIndexVars

\* Opening for writing a file whose path does not depend on the ticker: the
\* file of every ticker is truncated.
OpenForWriteOnePath(b, file, nextpc) ==
    /\ file' = [u \in Tickers |-> Partial]
    /\ bpc' = [bpc EXCEPT ![b] = nextpc]
    /\ bloc' = [bloc EXCEPT ![b].detached = FALSE, ![b].overlap = FALSE]

\* Opening file[t] for writing truncates it; writers already at work on the
\* same file now share it with b.
OpenForWrite(b, file, nextpc) ==
    LET t == bloc[b].ticker IN
    /\ file' = [file EXCEPT ![t] = Partial]
    /\ bpc' = [bpc EXCEPT ![b] = nextpc]
    /\ bloc' = [o \in Builders |->
                   IF o = b
                   THEN [bloc[o] EXCEPT !.detached = FALSE,
                                        !.overlap = OtherWriters(b, t, nextpc) # {}]
                   ELSE IF o \in OtherWriters(b, t, nextpc)
                   THEN [bloc[o] EXCEPT !.overlap = TRUE]
                   ELSE bloc[o]]

\* The write completes.  A detached writer leaves the path as it is; while
\* another writer still has the file open it stays incomplete; writers that
\* overlapped leave either the last writer's bytes or a mixture.
CloseAfterWrite(b, file, pcname, content) ==
    LET t == bloc[b].ticker IN
    IF bloc[b].detached \/ OtherWriters(b, t, pcname) # {}
    THEN UNCHANGED file
    ELSE \E result \in (IF bloc[b].overlap THEN {content, Partial} ELSE {content}) :
            file' = [file EXCEPT ![t] = result]

\* summarize.py:88: faiss.write_index opens the index file
BuildOpenIndex(b) ==
    /\ bpc[b] = "open_idx"
    /\ OpenForWrite(b, idxFile, "write_idx")
    /\ UNCHANGED <<docs, metaFile, blast, nbuilds, qpc, qloc, qres, ndocops>>
    /\ UNCHANGED notIndexVars

\* summarize.py:88: faiss.write_index finishes
BuildWriteIndex(b) ==
    /\ bpc[b] = "write_idx"
    /\ CloseAfterWrite(b, idxFile, "write_idx",
                       IndexContent(bloc[b].gen, bloc[b].scanned, bloc[b].store))
    /\ bpc' = [bpc EXCEPT ![b] = "open_meta"]
    /\ bloc' = [bloc EXCEPT ![b].detached = FALSE, ![b].overlap = FALSE]
    /\ UNCHANGED <<docs, metaFile, blast, nbuilds, qpc, qloc, qres, ndocops>>
    /\ UNCHANGED notIndexVars

\* summarize.py:91: open(meta_path, "w")
BuildOpenMeta(b) ==
    /\ bpc[b] = "open_meta"
    /\ OpenForWrite(b, metaFile, "write_meta")
    /\ UNCHANGED <<docs, idxFile, blast, nbuilds, qpc, qloc, qres, ndocops>>
    /\ UNCHANGED notIndexVars

\* summarize.py:92-94: json.dump, close, return
BuildWriteMeta(b) ==
    /\ bpc[b] = "write_meta"
    /\ CloseAfterWrite(b, metaFile, "write_meta",
                       MetaContent(bloc[b].gen, bloc[b].scanned))
    /\ bpc' = [bpc EXCEPT ![b] = "idle"]
    /\ bloc' = [bloc EXCEPT ![b] = IdleBuild]
    /\ blast' = [blast EXCEPT ![bloc[b].ticker] = "built"]
    /\ UNCHANGED <<docs, idxFile, nbuilds, qpc, qloc, qres, ndocops>>
    /\ UNCHANGED notIndexVars

----------------------------------------------------------------------------
(* retrieve_context_for_ticker, summarize.py:96-130 *)

\* The question texts of the query calls.
QueryTexts == {<<"a">>, <<"b", "b">>}

\* Squared L2 distance of two one-dimensional vectors (IndexFlatL2)
Dist(v, q) == (v - q) * (v - q)

\* index.search(q_vec, top_k): the 0-based positions of the top_k nearest
\* vectors, nearest first, padded with -1 when the index has fewer than top_k.
RECURSIVE Search(_, _, _, _)
Search(vectors, q, k, taken) ==
    IF k = 0 THEN <<>>
    ELSE LET left == (1..Len(vectors)) \ taken IN
         IF left = {} THEN <<-1>> \o Search(vectors, q, k - 1, taken)
         ELSE LET best == CHOOSE i \in left :
                              \A j \in left :
                                  \/ Dist(vectors[i], q) < Dist(vectors[j], q)
                                  \/ Dist(vectors[i], q) = Dist(vectors[j], q) /\ i <= j
              IN  <<best - 1>> \o Search(vectors, q, k - 1, taken \cup {best})

\* Python list indexing metadata[hit]: the 1-based position read, or 0 for IndexError
PyIndex(n, hit) ==
    IF hit >= 0 THEN (IF hit < n THEN hit + 1 ELSE 0)
    ELSE (IF n + hit >= 0 THEN n + hit + 1 ELSE 0)

\* summarize.py:121-128: the snippets of the hits, or the exception of the
\* first hit that fails
RECURSIVE Snippets(_, _, _, _)
Snippets(hits, entries, dir, chunk_size) ==
    IF hits = <<>> THEN [error |-> "none", snippets |-> <<>>]
    ELSE LET pos == PyIndex(Len(entries), Head(hits)) IN
         IF pos = 0 THEN [error |-> "IndexError", snippets |-> <<>>]
         ELSE LET m == entries[pos] IN
              IF dir.files[m.source] = NoFile
              THEN [error |-> "FileNotFoundError", snippets |-> <<>>]
              ELSE LET full  == dir.files[m.source][1]
                       start == m.chunk_index * chunk_size
                       this  == [source |-> m.source, chunk_index |-> m.chunk_index,
                                 hit |-> Head(hits),
                                 snippet |-> Slice(full, start, start + chunk_size)]
                       rest  == Snippets(Tail(hits), entries, dir, chunk_size)
                   IN  [error |-> rest.error,
                        snippets |-> IF rest.error = "none"
                                     THEN <<this>> \o rest.snippets ELSE <<>>]

IdleQuery == [ticker |-> "-", question |-> <<>>, index |-> NotLoaded, metadata |-> NotLoaded]

NoResult == [status |-> "none", error |-> "none", ticker |-> "-", question |-> <<>>,
             snippets |-> <<>>, index |-> NotLoaded, metadata |-> NotLoaded,
             store |-> NoDir]

\* An existence check that looks at the metadata file only.
QueryStartChecksMetadataOnly(t, question) ==
    /\ qpc = "idle"
    /\ IF metaFile[t] = Absent
       THEN /\ qres' = [NoResult EXCEPT !.status = "raised", !.error = "RuntimeError",
                                        !.ticker = t]
            /\ UNCHANGED <<qpc, qloc>>
       ELSE /\ qpc' = "load_idx"
            /\ qloc' = [IdleQuery EXCEPT !.ticker = t, !.question = question]
            /\ qres' = NoResult
    /\ UNCHANGED <<docs, idxFile, metaFile, bpc, bloc, blast, nbuilds, ndocops>>
    /\ UNCHANGED notIndexVars

\* summarize.py:105-111: both files must exist, else RuntimeError
QueryStart(t, question) ==
    /\ qpc = "idle"
    /\ IF idxFile[t] = Absent \/ metaFile[t] = Absent
       THEN /\ qres' = [NoResult EXCEPT !.status = "raised", !.error = "RuntimeError",
                                        !.ticker = t]
            /\ UNCHANGED <<qpc, qloc>>
       ELSE /\ qpc' = "load_idx"
            /\ qloc' = [IdleQuery EXCEPT !.ticker = t, !.question = question]
            /\ qres' = NoResult
    /\ UNCHANGED <<docs, idxFile, metaFile, bpc, bloc, blast, nbuilds, ndocops>>
    /\ UNCHANGED notIndexVars

\* summarize.py:114: faiss.read_index; a missing or incomplete file raises
QueryLoadIndex ==
    /\ qpc = "load_idx"
    /\ LET file == idxFile[qloc.ticker] IN
       IF IsWritten(file)
       THEN /\ qpc' = "load_meta"
            /\ qloc' = [qloc EXCEPT !.index = file]
            /\ UNCHANGED qres
       ELSE /\ qpc' = "idle"
            /\ qloc' = IdleQuery
            /\ qres' = [NoResult EXCEPT !.status = "raised", !.error = "read_index failed",
                                        !.ticker = qloc.ticker, !.index = file]
    /\ UNCHANGED <<docs, idxFile, metaFile, bpc, bloc, blast, nbuilds, ndocops>>
    /\ UNCHANGED notIndexVars

\* summarize.py:115: json.loads(meta_path.read_text()); a missing or incomplete file raises
QueryLoadMeta ==
    /\ qpc = "load_meta"
    /\ LET file == metaFile[qloc.ticker] IN
       IF IsWritten(file)
       THEN /\ qpc' = "search"
            /\ qloc' = [qloc EXCEPT !.metadata = file]
            /\ UNCHANGED qres
       ELSE /\ qpc' = "idle"
            /\ qloc' = IdleQuery
            /\ qres' = [NoResult EXCEPT !.status = "raised", !.error = "json.loads failed",
                                        !.ticker = qloc.ticker, !.index = qloc.index,
                                        !.metadata = file]
    /\ UNCHANGED <<docs, idxFile, metaFile, bpc, bloc, blast, nbuilds, ndocops>>
    /\ UNCHANGED notIndexVars

\* summarize.py:118-130: embed the question, search, re-read and slice the sources
QuerySearch ==
    /\ qpc = "search"
    /\ LET hits == Search(qloc.index.vectors, Embed(qloc.question), TopK, {})
           out  == Snippets(hits, qloc.metadata.entries, docs[qloc.ticker], ChunkSize)
       IN  qres' = [status   |-> IF out.error = "none" THEN "returned" ELSE "raised",
                    error    |-> out.error,
                    ticker   |-> qloc.ticker,
                    question |-> qloc.question,
                    snippets |-> out.snippets,
                    index    |-> qloc.index,
                    metadata |-> qloc.metadata,
                    store    |-> docs[qloc.ticker]]
    /\ qpc' = "idle"
    /\ qloc' = IdleQuery
    /\ UNCHANGED <<docs, idxFile, metaFile, bpc, bloc, blast, nbuilds, ndocops>>
    /\ UNCHANGED notIndexVars

----------------------------------------------------------------------------
(* The document store changes: files are fetched, overwritten or deleted *)

PutDoc(t, f, text) ==
    /\ ndocops < MaxDocOps
    /\ ndocops' = ndocops + 1
    /\ docs[t].files[f] # <<text>>
    /\ docs' = [docs EXCEPT ![t] = WithFile(docs[t], f, text)]
    /\ UNCHANGED <<idxFile, metaFile, bpc, bloc, blast, nbuilds, qpc, qloc, qres>>
    /\ UNCHANGED notIndexVars

DeleteDoc(t, f) ==
    /\ ndocops < MaxDocOps
    /\ ndocops' = ndocops + 1
    /\ docs[t].files[f] # NoFile
    /\ docs' = [docs EXCEPT ![t].files[f] = NoFile]
    /\ UNCHANGED <<idxFile, metaFile, bpc, bloc, blast, nbuilds, qpc, qloc, qres>>
    /\ UNCHANGED notIndexVars

----------------------------------------------------------------------------
(* Question text.  A question is the sequence of its words, lower-cased    *)
(* (every predicate lower-cases the text or matches with re.IGNORECASE);   *)
(* the text is the words joined by single spaces.                          *)

Vocabulary == {"net", "income", "2020", "revenue", "profit", "percentage",
               "than", "stock", "formn-2", "help"}

Questions == UNION {[1..k -> Vocabulary] : k \in 0..MaxQuestionLen}

\* kw in word: no word of the vocabulary has a keyword of the code as a
\* proper substring, so a one-word keyword occurs in a word only as that word.
WordHas(w, kw) == w = kw

\* phrase in text, for a keyword phrase given as its words
PhraseIn(phrase, q) ==
    \E i \in 1..(Len(q) - Len(phrase) + 1) :
        \A k \in 1..Len(phrase) : WordHas(q[i + k - 1], phrase[k])

AnyPhraseIn(phrases, q) == \E ph \in phrases : PhraseIn(ph, q)

\* The words with a digit in them, and the words that are a year 20dd.
HasDigit(w) == w \in {"2020", "formn-2"}
IsYear20(w) == w = "2020"

\* re.search(r"20\d{2}", text)
MentionsYear(q) == \E i \in 1..Len(q) : IsYear20(q[i])

\* ask_handlers.py:41  \bnet income\D+?(20\d{2})\b : the position of the year
\* of the first match, 0 when there is none
NetIncomeYearMatches(q) ==
    {j \in 1..Len(q) :
        /\ IsYear20(q[j])
        /\ \E i \in 1..(j - 2) :
              /\ q[i] = "net" /\ q[i + 1] = "income"
              /\ \A k \in (i + 2)..(j - 1) : ~HasDigit(q[k])}

\* ask_handlers.py:77-80  \b(?:revenue|earnings|net income|...)\b.*?\b(20\d{2})\b
YearPerformanceMatches(q) ==
    {j \in 1..Len(q) :
        /\ IsYear20(q[j])
        /\ \E i \in 1..(j - 1) :
              \/ q[i] = "revenue"
              \/ i + 1 < j /\ q[i] = "net" /\ q[i + 1] = "income"}

----------------------------------------------------------------------------
(* The handlers' predicates, ask_handlers.py *)

NetIncomeYearCanHandle(q) == NetIncomeYearMatches(q) # {}

LatestNetIncomeCanHandle(q) ==
    /\ AnyPhraseIn({<<"latest", "net", "income">>, <<"net", "income">>}, q)
    /\ ~MentionsYear(q)

YearPerformanceCanHandle(q) == YearPerformanceMatches(q) # {}

LatestRevenueCanHandle(q) ==
    /\ AnyPhraseIn({<<"latest", "revenue">>, <<"recent", "revenue">>, <<"revenue">>}, q)
    /\ ~MentionsYear(q)

ProfitCompareCanHandle(q) == PhraseIn(<<"profit">>, q) /\ PhraseIn(<<"than">>, q)

ProfitPctCompareCanHandle(q) ==
    PhraseIn(<<"profit", "percentage">>, q) /\ PhraseIn(<<"than">>, q)

StockNewsCanHandle(q) == AnyPhraseIn({<<"stock">>, <<"stocks">>, <<"news">>}, q)

\* \bform\s*n-2\b
FormN2CanHandle(q) ==
    \/ PhraseIn(<<"formn-2">>, q)
    \/ PhraseIn(<<"form", "n-2">>, q)

\* A fallback that wants at least one word.
RAGFallbackNeedsWords(q) == q # <<>>

\* ask_handlers.py:312-313
RAGFallbackCanHandle(q) == TRUE

\* ask_handlers.py:323-333
ASK_HANDLERS ==
    <<"NetIncomeYearHandler", "LatestNetIncomeHandler", "YearPerformanceHandler",
      "LatestRevenueHandler", "ProfitCompareHandler", "ProfitPctCompareHandler",
      "StockNewsHandler", "FormN2Handler", "RAGFallbackHandler">>

NumHandlers == Len(ASK_HANDLERS)

CanHandle(h, q) ==
    CASE ASK_HANDLERS[h] = "NetIncomeYearHandler"    -> NetIncomeYearCanHandle(q)
      [] ASK_HANDLERS[h] = "LatestNetIncomeHandler"  -> LatestNetIncomeCanHandle(q)
      [] ASK_HANDLERS[h] = "YearPerformanceHandler"  -> YearPerformanceCanHandle(q)
      [] ASK_HANDLERS[h] = "LatestRevenueHandler"    -> LatestRevenueCanHandle(q)
      [] ASK_HANDLERS[h] = "ProfitCompareHandler"    -> ProfitCompareCanHandle(q)
      [] ASK_HANDLERS[h] = "ProfitPctCompareHandler" -> ProfitPctCompareCanHandle(q)
      [] ASK_HANDLERS[h] = "StockNewsHandler"        -> StockNewsCanHandle(q)
      [] ASK_HANDLERS[h] = "FormN2Handler"           -> FormN2CanHandle(q)
      [] ASK_HANDLERS[h] = "RAGFallbackHandler"      -> RAGFallbackCanHandle(q)

\* main.py:149-159, 185-187: of the help patterns only \bhelp\b can match a
\* text over the vocabulary
HelpMatches(q) == PhraseIn(<<"help">>, q)

\* The words of the questions put to extract_fact_request: the words of the
\* keywords of FACT_METRICS, a year and a word that is in no keyword.
FactVocabulary ==
    {"earn", "earnings", "income", "net", "profit", "revenue", "sales",
     "turnover", "operating", "operatingprofit", "cash", "flow", "from",
     "operations", "eps", "per", "share", "basic", "assets", "total",
     "liabilities", "equity", "shareholders'", "stockholders", "what", "2020"}

MaxFactLen == 3   \* most words in a question put to extract_fact_request

FactQuestions == UNION {[1..k -> FactVocabulary] : k \in 0..MaxFactLen}

\* The pairs <<w, v>> of different words of the two vocabularies where v
\* occurs inside w, where w starts with v, and where w ends with v.
ProperInfix ==
    {<<"earnings", "earn">>, <<"operating", "per">>, <<"operatingprofit", "operating">>,
     <<"operatingprofit", "per">>, <<"operatingprofit", "profit">>,
     <<"operations", "per">>, <<"percentage", "per">>, <<"shareholders'", "share">>,
     <<"stockholders", "stock">>}
ProperPrefix ==
    {<<"earnings", "earn">>, <<"operatingprofit", "operating">>, <<"percentage", "per">>,
     <<"shareholders'", "share">>, <<"stockholders", "stock">>}
ProperSuffix == {<<"operatingprofit", "profit">>}

\* v in w, w.startswith(v), w.endswith(v)
Infix(w, v)      == w = v \/ <<w, v>> \in ProperInfix
StartsWith(w, v) == w = v \/ <<w, v>> \in ProperPrefix
EndsWith(w, v)   == w = v \/ <<w, v>> \in ProperSuffix

\* kw in q (edgar_fetch.py:359) for a keyword and a text given as their
\* words, the words joined by single spaces: a one-word keyword occurs
\* inside a word; a longer one ends a word, goes on over whole words and
\* starts a word.
KeywordIn(kw, q) ==
    \E i \in 1..(Len(q) - Len(kw) + 1) :
        IF Len(kw) = 1
        THEN Infix(q[i], kw[1])
        ELSE /\ EndsWith(q[i], kw[1])
             /\ \A k \in 2..(Len(kw) - 1) : q[i + k - 1] = kw[k]
             /\ StartsWith(q[i + Len(kw) - 1], kw[Len(kw)])

\* edgar_fetch.py:318-341, in dictionary order
FACT_METRICS ==
    << [tag |-> "NetIncomeLoss",
        keywords |-> {<<"earn">>, <<"earnings">>, <<"income">>, <<"net", "income">>,
                      <<"profit">>}],
       [tag |-> "Revenues",
        keywords |-> {<<"revenue">>, <<"sales">>, <<"turnover">>}],
       [tag |-> "OperatingIncomeLoss",
        keywords |-> {<<"operating", "income">>, <<"operatingprofit">>}],
       [tag |-> "NetCashProvidedByUsedInOperatingActivities",
        keywords |-> {<<"cash", "flow">>, <<"cash", "from", "operations">>,
                      <<"operating", "cash", "flow">>}],
       [tag |-> "EarningsPerShareBasic",
        keywords |-> {<<"eps">>, <<"earnings", "per", "share">>, <<"basic", "eps">>}],
       [tag |-> "Assets",
        keywords |-> {<<"assets">>, <<"total", "assets">>}],
       [tag |-> "Liabilities",
        keywords |-> {<<"liabilities">>, <<"total", "liabilities">>}],
       [tag |-> "StockholdersEquity",
        keywords |-> {<<"equity">>, <<"shareholders'", "equity">>,
                      <<"stockholders", "equity">>}] >>

\* edgar_fetch.py:343-362; the tag "None" and the year 0 stand for None.
\* Over the vocabulary the only year is 2020 and no quarter is named.
ExtractFactRequest(q) ==
    LET year    == IF \E i \in 1..Len(q) : q[i] = "2020" THEN 2020 ELSE 0
        matches == {m \in 1..Len(FACT_METRICS) :
                        \E kw \in FACT_METRICS[m].keywords : KeywordIn(kw, q)}
    IN  IF matches = {}
        THEN [tag |-> "None", year |-> 0, period |-> "None"]
        ELSE [tag    |-> FACT_METRICS[CHOOSE m \in matches : \A o \in matches : m <= o].tag,
              year   |-> year,
              period |-> "FY"]

----------------------------------------------------------------------------
(* Calls that run to their end in one step, as /ask and the handlers make  *)
(* them: build, retrieve and fetch.                                        *)

\* build_faiss_index_for_ticker(t, reset), summarize.py:35-94, with no other
\* call interleaved; gen names the call.
BuildCall(dir, idx, meta, reset, gen) ==
    IF ~dir.exists
    THEN [outcome |-> "FileNotFoundError", idx |-> idx, meta |-> meta]
    ELSE LET idx1    == IF reset /\ idx # Absent THEN Absent ELSE idx
             scanned == ScanFiles(dir, FileOrder, ChunkSize)
         IN  IF scanned = <<>>
             THEN [outcome |-> "no_chunks", idx |-> idx1, meta |-> meta]
             ELSE [outcome |-> "built",
                   idx     |-> IndexContent(gen, scanned, dir),
                   meta    |-> MetaContent(gen, scanned)]

\* retrieve_context_for_ticker, summarize.py:96-130, with no other call interleaved
RetrieveCall(dir, idx, meta, qvec) ==
    IF idx = Absent \/ meta = Absent
    THEN [error |-> "RuntimeError", snippets |-> <<>>]
    ELSE IF ~IsWritten(idx) \/ ~IsWritten(meta)
    THEN [error |-> "read failed", snippets |-> <<>>]
    ELSE Snippets(Search(idx.vectors, qvec, TopK, {}), meta.entries, dir, ChunkSize)

\* The embedding of a question given as words.
EmbedQuestion(q) == 3 * Len(q)

\* What the filing source lists for one fetch: no filing, or one filing with
\* its primary component (a file name, or "none" when the filing has none).
\* served tells whether the request for the component succeeds:
\* choose_and_download, edgar_fetch.py:152-160, returns None when it fails.
NoFiling == [listed |-> FALSE, component |-> "none", text |-> <<>>, served |-> TRUE]
Filings ==
    {NoFiling,
     [listed |-> TRUE, component |-> "none", text |-> <<>>, served |-> TRUE],
     [listed |-> TRUE, component |-> "a.xml", text |-> <<" ", "a", "b">>, served |-> TRUE],
     [listed |-> TRUE, component |-> "a.xml", text |-> <<" ", "a", "b">>, served |-> FALSE]}

\* The local name of a filing's index file, <ticker>-<accession>-index.json
IndexJson == "c.json"

\* The text of a filing's index file, the listing of its components
\* (edgar_fetch.py:129-133): "a" lists a.xml, "b" lists nothing to download.
IndexText(filing) == IF filing.component = "none" THEN <<"b">> ELSE <<"a">>

\* edgar_fetch.py:217-242 for a filing that is downloaded: downloads counts
\* the index and component files requested (lines 220 and 233). The index
\* file is written (225) before the component is requested (233), and a
\* component whose request fails is not written (159-160).
FetchNewFiling(made, filing) ==
    LET withIdx == WithFile(made, IndexJson, IndexText(filing)) IN
    [error     |-> "KeyError",
     dir       |-> IF filing.component = "none" \/ ~filing.served THEN withIdx
                   ELSE WithFile(withIdx, filing.component, filing.text),
     saved     |-> 0,
     downloads |-> IF filing.component = "none" THEN 1 ELSE 2]

\* fetch_for_ticker without the test of line 209: every listed filing is
\* downloaded
FetchForTickerAlwaysDownloads(dir, t, filing) ==
    IF t \notin cikMap
    THEN [error |-> "ValueError", dir |-> dir, saved |-> 0, downloads |-> 0]
    ELSE LET made == [dir EXCEPT !.exists = TRUE] IN
         IF ~filing.listed
         THEN [error |-> "none", dir |-> made, saved |-> 0, downloads |-> 0]
         ELSE FetchNewFiling(made, filing)

\* fetch_for_ticker, edgar_fetch.py:181-245; saved counts the paths returned.
\* A filing whose index file is already there is returned without a download
\* (209-214). A new filing is downloaded, index file and component, and then
\* line 242 reads the keys filingDate, formType and accessionNumber, which the
\* filings of get_latest_filings (line 114) do not have: a KeyError, after the
\* files were written.
FetchForTicker(dir, t, filing) ==
    IF t \notin cikMap
    THEN [error |-> "ValueError", dir |-> dir, saved |-> 0, downloads |-> 0]
    ELSE LET made == [dir EXCEPT !.exists = TRUE] IN
         IF ~filing.listed
         THEN [error |-> "none", dir |-> made, saved |-> 0, downloads |-> 0]
         ELSE IF made.files[IndexJson] # NoFile
         THEN [error |-> "none", dir |-> made, saved |-> 1, downloads |-> 0]
         ELSE FetchNewFiling(made, filing)

----------------------------------------------------------------------------
(* Structured facts, summarization/extract_metrics.py *)

MaxElems == 2   \* most elements in an instance document, the root included

\* ticker.lower(), extract_metrics.py:17, as the characters of the result
LowerOf == [AAPL |-> <<"a", "a", "p", "l">>, MSFT |-> <<"m", "s", "f", "t">>]

\* str.lower() of one character and of a text
LowerChar(c) ==
    CASE c = "A" -> "a" [] c = "P" -> "p" [] c = "L" -> "l"
      [] c = "M" -> "m" [] c = "S" -> "s" [] c = "F" -> "f" [] c = "T" -> "t"
      [] OTHER -> c

LowerSeq(s) == [i \in 1..Len(s) |-> LowerChar(s[i])]

\* An instance file <stem>-<date>.xml is its stem, its eight digits and its
\* document. The document is its elements in document order, the root first
\* (root.iter()); an element is its tag as ElementTree gives it and its text,
\* <<>> when the element has none.
Stems == {<<"A", "A", "P", "L">>, <<"a", "a", "p", "l">>, <<"m", "s", "f", "t">>}

Dates ==
    {<<"2", "0", "2", "0", "0", "9", "2", "6">>,
     <<"2", "0", "2", "0", "0", "9", "3", "0">>,
     <<"2", "0", "2", "0", "0", "6", "2", "7">>}

Years == {<<"2", "0", "2", "0">>, <<"2", "0", "1", "9">>}

\* The tag of an element without a namespace, and of one in a namespace
\* ("{uri}local"), as the pieces of the string.
Plain(local) == <<local>>
Clark(local) == <<"{", "uri", "}", local>>

ElementTexts == {<<>>, <<" ">>, <<"5">>, <<" ", "7">>}

Elements ==
    [tag  : {Plain("NetIncomeLoss"), Clark("NetIncomeLoss"), Plain("Revenues")},
     text : ElementTexts]

Documents == UNION {[1..n -> Elements] : n \in 1..MaxElems}

\* The documents of the stored instance files: one with a revenue and a net
\* income, one without a net income, one with a net income of zero.
IncomeDoc   == <<[tag |-> Plain("xbrl"), text |-> <<" ">>],
                 [tag |-> Clark("Revenues"), text |-> <<"7">>],
                 [tag |-> Clark("NetIncomeLoss"), text |-> <<"5">>]>>
NoIncomeDoc == <<[tag |-> Plain("xbrl"), text |-> <<" ">>],
                 [tag |-> Clark("Revenues"), text |-> <<"7">>]>>
ZeroIncomeDoc == <<[tag |-> Plain("xbrl"), text |-> <<" ">>],
                   [tag |-> Clark("Revenues"), text |-> <<"7">>],
                   [tag |-> Clark("NetIncomeLoss"), text |-> <<"0">>]>>

InstanceFiles == [stem : Stems, date : Dates, doc : {IncomeDoc, NoIncomeDoc, ZeroIncomeDoc}]

\* The stores of at most two files; a file name is there once, and on a file
\* system that ignores case so is a name up to case.
XbrlStores ==
    {st \in {{}} \cup {{f, g} : f \in InstanceFiles, g \in InstanceFiles} :
        \A f, g \in st : f.stem = g.stem /\ f.date = g.date => f = g}

\* What a call returns: None, a text, or an exception.
NotFound     == [error |-> "none", found |-> FALSE, text |-> <<>>]
Found(text)  == [error |-> "none", found |-> TRUE, text |-> text]
Fails(name)  == [error |-> name, found |-> FALSE, text |-> <<>>]

\* `if ni:` on the value a call returned (ask_handlers.py:50)
Truthy(r) == r.error = "none" /\ r.found /\ r.text # <<>>

\* date_str[:4] and month_day.startswith("09"), extract_metrics.py:29-33
YearOf(date) == SubSeq(date, 1, 4)
MonthDayOf(date) == SubSeq(date, 5, 8)
StartsWith09(md) == Len(md) >= 2 /\ md[1] = "0" /\ md[2] = "9"

\* The digits of a date as a number: the order of the sort of line 25
DigitValue(c) ==
    CASE c = "0" -> 0 [] c = "1" -> 1 [] c = "2" -> 2 [] c = "3" -> 3 [] c = "4" -> 4
      [] c = "5" -> 5 [] c = "6" -> 6 [] c = "7" -> 7 [] c = "8" -> 8 [] c = "9" -> 9

RECURSIVE DateNum(_)
DateNum(d) == IF d = <<>> THEN 0
              ELSE 10 * DateNum(SubSeq(d, 1, Len(d) - 1)) + DigitValue(d[Len(d)])

\* DOCS_DIR.glob(f"{ticker}-*.xml"), extract_metrics.py:19
Glob(files, ticker, caseSensitive) ==
    {f \in files : IF caseSensitive THEN f.stem = ticker
                   ELSE LowerSeq(f.stem) = LowerSeq(ticker)}

\* FILENAME_PATTERN.match(file.name), extract_metrics.py:10 and 20:
\* ^aapl-(\d{8})\.xml$ with re.IGNORECASE; group 1 is the eight digits
FilenamePatternMatches(f) == LowerSeq(f.stem) = <<"a", "a", "p", "l">>
Group1(f) == f.date

\* extract_metrics.py:25-34: per year the most recently dated candidate whose
\* month and day start with "09"
YearEndByYear(candidates) ==
    LET yearEnd == {c \in candidates : StartsWith09(MonthDayOf(c.date))} IN
    [y \in {YearOf(c.date) : c \in yearEnd} |->
        CHOOSE c \in yearEnd :
            /\ YearOf(c.date) = y
            /\ \A d \in yearEnd : YearOf(d.date) = y => DateNum(d.date) <= DateNum(c.date)]

\* A collector that keeps the files of the ticker the pattern matches, without
\* the comparison of line 21 and the group of line 22.
CollectKeepsTickerFiles(t) ==
    [error |-> "none",
     map   |-> YearEndByYear({f \in Glob(xfiles, LowerOf[t], xcase) :
                                 FilenamePatternMatches(f)})]

\* _collect_xbrl_instances_by_ticker, extract_metrics.py:12-36. Line 21 keeps
\* a file when group 1 of the pattern, the digits, equals the ticker; for a
\* file it keeps, line 22 asks for group 2, which the pattern does not have.
CollectXbrlInstancesByTicker(t) ==
    LET ticker == LowerOf[t]
        kept   == {f \in Glob(xfiles, ticker, xcase) :
                      FilenamePatternMatches(f) /\ LowerSeq(Group1(f)) = ticker}
    IN  IF kept # {}
        THEN [error |-> "IndexError", map |-> YearEndByYear({})]
        ELSE [error |-> "none", map |-> YearEndByYear(kept)]

\* '}' in tag, and tag.split('}', 1)[1]: extract_metrics.py:143-145
LocalName(tag) ==
    IF \E i \in 1..Len(tag) : tag[i] = "}"
    THEN LET i == CHOOSE i \in 1..Len(tag) :
                      tag[i] = "}" /\ \A j \in 1..(i - 1) : tag[j] # "}"
         IN  SubSeq(tag, i + 1, Len(tag))
    ELSE tag

\* The loop of extract_metrics.py:142-148 (and 57-63) from element i on
\* without the test of the text and without strip()
RECURSIVE ScanReturnsFirstElement(_, _, _)
ScanReturnsFirstElement(doc, names, i) ==
    IF i > Len(doc) THEN NotFound
    ELSE IF LocalName(doc[i].tag) \in names
    THEN Found(doc[i].text)
    ELSE ScanReturnsFirstElement(doc, names, i + 1)

\* The loop of extract_metrics.py:142-148 (and 57-63) from element i on
RECURSIVE ScanElements(_, _, _)
ScanElements(doc, names, i) ==
    IF i > Len(doc) THEN NotFound
    ELSE IF LocalName(doc[i].tag) \in names /\ doc[i].text # <<>>
    THEN Found(Strip(doc[i].text))
    ELSE ScanElements(doc, names, i + 1)

\* extract_metrics.py:139-148 on the parsed document
NetIncomeOfDocument(doc) == ScanElements(doc, {<<"NetIncomeLoss">>}, 1)

\* extract_metrics.py:53-63
RevenueOfDocument(doc) == ScanElements(doc, {<<"Revenues">>, <<"SalesRevenueNet">>}, 1)

\* extract_metrics.py:129-137 and 43-51: None for a year the map does not
\* have; the value of the map is one Path (line 34), and line 136 iterates
\* over it: a TypeError
SelectFrom(c, year) ==
    IF c.error # "none" THEN Fails(c.error)
    ELSE IF year \notin DOMAIN c.map THEN NotFound
    ELSE Fails("TypeError")

SelectCandidates(t, year) == SelectFrom(CollectXbrlInstancesByTicker(t), year)

\* get_net_income_by_year, extract_metrics.py:124-148
GetNetIncomeByYear(t, year) == SelectCandidates(t, year)

\* get_revenue_by_year, extract_metrics.py:38-63
GetRevenueByYear(t, year) == SelectCandidates(t, year)

\* The exception of the first of the calls that raised, "none" when none did.
FirstError(calls) ==
    LET failed == {i \in 1..Len(calls) : calls[i].error # "none"} IN
    IF failed = {} THEN "none"
    ELSE calls[CHOOSE i \in failed : \A j \in failed : i <= j].error

\* extract_metrics.py:153-163 for the maps m1 and m2 collected at lines
\* 153-154: the common years with both net incomes; an exception of a call
\* propagates
IncomeError(t1, t2, y) ==
    FirstError(<<GetNetIncomeByYear(t1, y), GetNetIncomeByYear(t2, y)>>)

CommonYears(t1, t2, m1, m2) ==
    LET common == DOMAIN m1.map \cap DOMAIN m2.map
        failed == {y \in common : IncomeError(t1, t2, y) # "none"}
    IN  IF FirstError(<<m1, m2>>) # "none"
        THEN [error |-> FirstError(<<m1, m2>>), years |-> {}]
        ELSE IF failed # {}
        THEN [error |-> IncomeError(t1, t2, CHOOSE y \in failed : TRUE), years |-> {}]
        ELSE [error |-> "none",
              years |-> {y \in common : /\ Truthy(GetNetIncomeByYear(t1, y))
                                         /\ Truthy(GetNetIncomeByYear(t2, y))}]

\* get_net_income_by_years, extract_metrics.py:151-164
GetNetIncomeByYears(t1, t2) ==
    CommonYears(t1, t2, CollectXbrlInstancesByTicker(t1), CollectXbrlInstancesByTicker(t2))

\* float(x) of a returned value: TypeError for None, ValueError for a text
\* that is no number; the texts are digits and spaces
IsDigits(text) == text # <<>> /\ \A i \in 1..Len(text) : text[i] \notin {" "}
FloatOk(r) == r.found /\ IsDigits(Strip(r.text))
FloatOf(r) == DateNum(Strip(r.text))

\* extract_metrics.py:179-184: both percentages are computed, or an exception
\* (TypeError, ValueError, ZeroDivisionError) is caught and the year skipped
PercentagesComputed(ni1, rev1, ni2, rev2) ==
    /\ FloatOk(ni1) /\ FloatOk(rev1) /\ FloatOf(rev1) # 0
    /\ FloatOk(ni2) /\ FloatOk(rev2) /\ FloatOf(rev2) # 0

\* extract_metrics.py:175-178: the four lookups of a year
YearLookups(t1, t2, y) ==
    <<GetNetIncomeByYear(t1, y), GetRevenueByYear(t1, y),
      GetNetIncomeByYear(t2, y), GetRevenueByYear(t2, y)>>

LookupsComputed(c) == PercentagesComputed(c[1], c[2], c[3], c[4])

\* extract_metrics.py:173-185 for the years data of line 172: the four
\* lookups of a year are outside the try, the divisions inside it
PercentagesOf(t1, t2, data) ==
    IF data.error # "none" THEN data
    ELSE IF \E y \in data.years : FirstError(YearLookups(t1, t2, y)) # "none"
    THEN [error |-> FirstError(YearLookups(t1, t2,
                        CHOOSE y \in data.years :
                            FirstError(YearLookups(t1, t2, y)) # "none")),
          years |-> {}]
    ELSE [error |-> "none",
          years |-> {y \in data.years : LookupsComputed(YearLookups(t1, t2, y))}]

\* get_profit_percentage_by_years, extract_metrics.py:166-185
GetProfitPercentageByYears(t1, t2) ==
    PercentagesOf(t1, t2, GetNetIncomeByYears(t1, t2))

----------------------------------------------------------------------------
(* Responses *)

NoResponse     == [kind |-> "none", code |-> 0, detail |-> "none"]
Result(d)      == [kind |-> "result", code |-> 200, detail |-> d]
Http(code, d)  == [kind |-> "HTTPException", code |-> code, detail |-> d]
Raised(name)   == [kind |-> "exception", code |-> 500, detail |-> name]

\* The part of the state a handler can change.
World == [docs |-> docs, idx |-> idxFile, meta |-> metaFile, nbuilds |-> nbuilds]

Outcome(out, w, lookups) == [out |-> out, world |-> w, lookups |-> lookups]

\* fetch_for_ticker(t, ...) and, when it returned something,
\* build_faiss_index_for_ticker(t, reset=True): ask_handlers.py:101-104, 235-238
FetchThenReset(w, t, filing) ==
    LET f  == FetchForTicker(w.docs[t], t, filing)
        w1 == [w EXCEPT !.docs[t] = f.dir]
    IN  IF f.error # "none" THEN [stop |-> Raised(f.error), world |-> w1]
        ELSE IF f.saved = 0 THEN [stop |-> Http(404, "No filings"), world |-> w1]
        ELSE LET b == BuildCall(f.dir, w1.idx[t], w1.meta[t], TRUE, w1.nbuilds + 1)
             IN  [stop  |-> NoResponse,
                  world |-> [w1 EXCEPT !.idx[t] = b.idx, !.meta[t] = b.meta,
                                       !.nbuilds = w1.nbuilds + 1]]

----------------------------------------------------------------------------
(* The handlers' actions, ask_handlers.py *)

\* ask_handlers.py:46-55
NetIncomeYearHandle(w, tickers, q) ==
    LET year    == <<"2", "0", "2", "0">>
        failed  == {i \in 1..Len(tickers) : GetNetIncomeByYear(tickers[i], year).error # "none"}
        results == {i \in 1..Len(tickers) : Truthy(GetNetIncomeByYear(tickers[i], year))}
    IN  IF failed # {}
        THEN LET i == CHOOSE i \in failed : \A j \in failed : i <= j IN
             Outcome(Raised(GetNetIncomeByYear(tickers[i], year).error), w, i)
        ELSE Outcome(IF results = {} THEN Result("No net income data")
                     ELSE Result("net income"),
                     w, Len(tickers))

\* ask_handlers.py:65-73: get_latest_net_income takes no argument
\* (extract_metrics.py:65), so the call with a ticker is a TypeError
LatestNetIncomeHandle(w, tickers, q) ==
    IF tickers = <<>>
    THEN Outcome(Http(400, "No net income data available."), w, 0)
    ELSE Outcome(Raised("TypeError"), w, 0)

\* ask_handlers.py:85-110
YearPerformanceHandle(w, tickers, q, filing) ==
    IF tickers = <<>> THEN Outcome(Raised("IndexError"), w, 0)
    ELSE LET t == tickers[1]
             r == FetchThenReset(w, t, filing)
         IN  IF r.stop # NoResponse THEN Outcome(r.stop, r.world, 0)
             ELSE LET rev == GetRevenueByYear(t, <<"2", "0", "2", "0">>) IN
                  Outcome(IF rev.error # "none" THEN Raised(rev.error)
                          ELSE IF ~Truthy(rev) THEN Result("No revenue data found")
                          ELSE Result("revenue"),
                          r.world, 1)

\* ask_handlers.py:120-128: get_latest_revenue takes no argument (extract_metrics.py:93)
LatestRevenueHandle(w, tickers, q) ==
    IF tickers = <<>>
    THEN Outcome(Http(400, "No revenue data available."), w, 0)
    ELSE Outcome(Raised("TypeError"), w, 0)

\* The answer made of a comparison by year: its exception propagates, no
\* common year gives the "no year" text
YearsResult(comp) ==
    IF comp.error # "none" THEN Raised(comp.error)
    ELSE IF comp.years = {} THEN Result("No year found")
    ELSE Result("year")

\* ask_handlers.py:135-146
ProfitCompareHandle(w, tickers, q) ==
    IF Len(tickers) < 2
    THEN Outcome(Http(400, "Please mention two companies to compare profits."), w, 0)
    ELSE Outcome(YearsResult(GetNetIncomeByYears(tickers[1], tickers[2])), w, 1)

\* ask_handlers.py:153-161: HTTPException(status=400, ...) is a TypeError,
\* the parameter is status_code
ProfitPctCompareHandle(w, tickers, q) ==
    IF Len(tickers) < 2
    THEN Outcome(Raised("TypeError"), w, 0)
    ELSE Outcome(YearsResult(GetProfitPercentageByYears(tickers[1], tickers[2])), w, 1)

\* ask_handlers.py:170-193: get_latest_revenue(t) is outside the try
StockNewsHandle(w, tickers, q) ==
    IF tickers = <<>>
    THEN Outcome(Result("answer"), w, 0)
    ELSE Outcome(Raised("TypeError"), w, 0)

\* ask_handlers.py:230-308; jsonOk: the completion parses as JSON
FormN2Handle(w, tickers, q, filing, jsonOk) ==
    IF tickers = <<>> THEN Outcome(Raised("IndexError"), w, 0)
    ELSE LET t == tickers[1]
             r == FetchThenReset(w, t, filing)
             raw == {f \in FileNames : r.world.docs[t].files[f] # NoFile
                                       /\ Suffix(f) \in {".xml", ".htm", ".html"}}
         IN  IF r.stop # NoResponse THEN Outcome(r.stop, r.world, 0)
             ELSE IF raw = {} THEN Outcome(Http(500, "No downloaded Form N-2"), r.world, 0)
             ELSE IF ~jsonOk THEN Outcome(Http(500, "Failed to parse JSON"), r.world, 0)
             ELSE Outcome(Result("parsed"), r.world, 0)

\* ask_handlers.py:315-320 with summarize.py:181-222
RECURSIVE RAGFallbackHandle(_, _, _)
RAGFallbackHandle(w, tickers, q) ==
    IF tickers = <<>> THEN Outcome(Result("answer"), w, 0)
    ELSE LET t == Head(tickers)
             r == RetrieveCall(w.docs[t], w.idx[t], w.meta[t], EmbedQuestion(q))
         IN  IF r.error # "none" THEN Outcome(Raised(r.error), w, 0)
             ELSE RAGFallbackHandle(w, Tail(tickers), q)

\* handler.handle(tickers, text) for handler h
Handle(h, w, tickers, q, filing, jsonOk) ==
    CASE ASK_HANDLERS[h] = "NetIncomeYearHandler"    -> NetIncomeYearHandle(w, tickers, q)
      [] ASK_HANDLERS[h] = "LatestNetIncomeHandler"  -> LatestNetIncomeHandle(w, tickers, q)
      [] ASK_HANDLERS[h] = "YearPerformanceHandler"  -> YearPerformanceHandle(w, tickers, q, filing)
      [] ASK_HANDLERS[h] = "LatestRevenueHandler"    -> LatestRevenueHandle(w, tickers, q)
      [] ASK_HANDLERS[h] = "ProfitCompareHandler"    -> ProfitCompareHandle(w, tickers, q)
      [] ASK_HANDLERS[h] = "ProfitPctCompareHandler" -> ProfitPctCompareHandle(w, tickers, q)
      [] ASK_HANDLERS[h] = "StockNewsHandler"        -> StockNewsHandle(w, tickers, q)
      [] ASK_HANDLERS[h] = "FormN2Handler"           -> FormN2Handle(w, tickers, q, filing, jsonOk)
      [] ASK_HANDLERS[h] = "RAGFallbackHandler"      -> RAGFallbackHandle(w, tickers, q)

----------------------------------------------------------------------------
(* Specification of the index under concurrency: two build calls, a query  *)
(* call and changes of the document store interleave step by step.         *)

\* The texts a.xml is overwritten with in this specification.
RaceTexts == {<<" ", "a", "b">>}

RaceStore == WithFile(WithFile(EmptyDir, "a.xml", <<"a", "b", "a">>), "c.json", <<"b">>)

\* The threads of the pool that run build and query calls.
Workers == {"w1", "w2"}

\* No structured-fact call made; the store holds one year-end instance of
\* AAPL for 2020, aapl-20200926.xml, with a NetIncomeLoss element.
NoXCall == [op |-> "none", t |-> "none", t2 |-> "none", year |-> <<>>, doc |-> <<>>,
            res |-> NotFound, years |-> {}]

XbrlFetched ==
    {[stem |-> <<"a", "a", "p", "l">>,
      date |-> <<"2", "0", "2", "0", "0", "9", "2", "6">>,
      doc  |-> IncomeDoc]}

InitXbrlIdle ==
    /\ xfiles = XbrlFetched
    /\ xcase = TRUE
    /\ xcall = NoXCall

\* No fetch call made.
NoFetchCall == [t |-> "none", filing |-> NoFiling, error |-> "none", downloads |-> 0,
                again |-> FALSE, before |-> NoDir, after |-> NoDir]

\* No call of extract_fact_request made.
NoFactCall == [called |-> FALSE, question |-> <<>>, tag |-> "None", year |-> 0,
               period |-> "None"]

\* No /ingest request made.
NoIngestCall == [t |-> "none", accession |-> "none", status |-> 0,
                 paths |-> <<>>, uploaded |-> <<>>, reported |-> <<>>]

InitFetchIdle ==
    /\ fcall = NoFetchCall
    /\ fetched = {}
    /\ icall = NoIngestCall
    /\ freq = NoFactCall

\* summarize.py:27: _embedder = None
InitEmbedIdle ==
    /\ _embedder = 0
    /\ constructed = 0
    /\ returned = {}
    /\ ecalls = 0
    /\ epc = [w \in Workers |-> "idle"]
    /\ eloc = [w \in Workers |-> 0]

InitChunkIdle ==
    /\ cdoc = <<>>
    /\ csize = 1
    /\ cpc = "start"
    /\ cout = <<>>

NoCall == [h |-> 0, via |-> "none", tickers |-> <<>>, question |-> <<>>,
           out |-> NoResponse, lookups |-> 0]

NoRequest == [question |-> <<>>, tickers |-> <<>>]

InitAskIdle ==
    /\ cikMap = Tickers
    /\ apc = "idle"
    /\ areq = NoRequest
    /\ ati = 1
    /\ ahi = 1
    /\ evaluated = <<>>
    /\ invoked = <<>>
    /\ hcall = NoCall
    /\ aresp = NoResponse

InitIndex(stores) ==
    /\ docs \in [Tickers -> stores]
    /\ idxFile = [t \in Tickers |-> Absent]
    /\ metaFile = [t \in Tickers |-> Absent]
    /\ bpc = [b \in Builders |-> "idle"]
    /\ bloc = [b \in Builders |-> IdleBuild]
    /\ blast = [t \in Tickers |-> "none"]
    /\ nbuilds = 0
    /\ qpc = "idle"
    /\ qloc = IdleQuery
    /\ qres = NoResult
    /\ ndocops = 0

BuildStep(b) ==
    \/ BuildResetCheck(b)
    \/ BuildUnlink(b)
    \/ BuildScan(b)
    \/ BuildOpenIndex(b)
    \/ BuildWriteIndex(b)
    \/ BuildOpenMeta(b)
    \/ BuildWriteMeta(b)

QueryStep ==
    \/ QueryLoadIndex
    \/ QueryLoadMeta
    \/ QuerySearch

InitRace == InitIndex({RaceStore}) /\ InitChunkIdle /\ InitAskIdle /\ InitEmbedIdle /\ InitXbrlIdle /\ InitFetchIdle

NextRace ==
    \/ \E b \in Builders, t \in Tickers, reset \in BOOLEAN : BuildStart(b, t, reset)
    \/ \E b \in Builders : BuildStep(b)
    \/ \E t \in Tickers, question \in QueryTexts : QueryStart(t, question)
    \/ QueryStep
    \/ \E t \in Tickers, text \in RaceTexts : PutDoc(t, "a.xml", text)
    \/ \E t \in Tickers : DeleteDoc(t, "a.xml")

SpecRace == InitRace /\ [][NextRace]_vars

----------------------------------------------------------------------------
(* Specification of the index, one call at a time: every build and query   *)
(* call runs to its end before the next call or store change begins.       *)

\* The stores a behaviour starts from.
InitStores ==
    {NoDir,
     EmptyDir,
     WithFile(WithFile(EmptyDir, "a.xml", <<"a", "b", "a">>), "c.json", <<"b">>),
     WithFile(WithFile(EmptyDir, "a.xml", <<" ", "a", "b">>), "b.htm", <<"b">>)}

NoCallRunning == qpc = "idle" /\ \A b \in Builders : bpc[b] = "idle"

Init == InitIndex(InitStores) /\ InitChunkIdle /\ InitAskIdle /\ InitEmbedIdle /\ InitXbrlIdle /\ InitFetchIdle

Next ==
    \/ /\ NoCallRunning
       /\ \E t \in Tickers, reset \in BOOLEAN : BuildStart("b1", t, reset)
    \/ BuildStep("b1")
    \/ /\ NoCallRunning
       /\ \E t \in Tickers, question \in QueryTexts : QueryStart(t, question)
    \/ QueryStep
    \/ /\ NoCallRunning
       /\ \E t \in Tickers, f \in FileNames, text \in StoreTexts : PutDoc(t, f, text)
    \/ /\ NoCallRunning
       /\ \E t \in Tickers, f \in FileNames : DeleteDoc(t, f)

Spec == Init /\ [][Next]_vars

----------------------------------------------------------------------------
(* Specification of the query: query calls on stores and persisted files   *)
(* as builds leave them, while source files are deleted.                   *)

\* What a build of store s leaves, and what is left of that when one of the
\* two files is missing: the index after a later build with reset=True that
\* found no chunks (lines 60, 77), the metadata while a build is between
\* lines 88 and 91.
QueryWorldsOf(s) ==
    LET b == BuildCall(s, Absent, Absent, FALSE, 0) IN
    IF b.outcome # "built"
    THEN {[docs |-> s, idx |-> Absent, meta |-> Absent, last |-> "none"]}
    ELSE {[docs |-> s, idx |-> b.idx, meta |-> b.meta, last |-> "built"],
          [docs |-> s, idx |-> Absent, meta |-> b.meta, last |-> "no_chunks"],
          [docs |-> s, idx |-> b.idx, meta |-> Absent, last |-> "none"],
          [docs |-> s, idx |-> Absent, meta |-> Absent, last |-> "none"]}

QueryWorlds == UNION {QueryWorldsOf(s) : s \in InitStores}

InitQuery ==
    /\ \E w \in [Tickers -> QueryWorlds] :
          /\ docs = [t \in Tickers |-> w[t].docs]
          /\ idxFile = [t \in Tickers |-> w[t].idx]
          /\ metaFile = [t \in Tickers |-> w[t].meta]
          /\ blast = [t \in Tickers |-> w[t].last]
    /\ bpc = [b \in Builders |-> "idle"]
    /\ bloc = [b \in Builders |-> IdleBuild]
    /\ nbuilds = 0
    /\ qpc = "idle"
    /\ qloc = IdleQuery
    /\ qres = NoResult
    /\ ndocops = 0
    /\ InitChunkIdle
    /\ InitAskIdle
    /\ InitEmbedIdle /\ InitXbrlIdle /\ InitFetchIdle

NextQuery ==
    \/ \E t \in Tickers, question \in QueryTexts : QueryStart(t, question)
    \/ QueryStep
    \/ \E t \in Tickers, f \in FileNames : DeleteDoc(t, f)

SpecQuery == InitQuery /\ [][NextQuery]_vars

----------------------------------------------------------------------------
(* Specification of the chunker: the chunking of one file's text,          *)
(* summarize.py:66-73, for every text and chunk size within the bounds.    *)

InitChunk ==
    /\ InitIndex({NoDir})
    /\ cdoc \in TextsUpTo(MaxDocLen)
    /\ csize \in 1..MaxChunkSize
    /\ cpc = "start"
    /\ cout = <<>>
    /\ InitAskIdle
    /\ InitEmbedIdle /\ InitXbrlIdle /\ InitFetchIdle

ChunkFile ==
    /\ cpc = "start"
    /\ cout' = ChunksOfFile(cdoc, csize)
    /\ cpc' = "chunked"
    /\ UNCHANGED <<cdoc, csize, indexVars, askVars, embedVars, xbrlVars, fetchVars>>

NextChunk == ChunkFile

SpecChunk == InitChunk /\ [][NextChunk]_vars

----------------------------------------------------------------------------
(* The /ask route, api/main.py:173-225, one request from its start to its  *)
(* response, and handle() called on a handler directly. The class          *)
(* SimpleMetricHandler that main.py:79 imports is not among the sources:   *)
(* what its can_handle answers is an input of AskSimple.                   *)

MaxTickers == 2

\* The lists extract_tickers_from_text can return: distinct tickers
TickerLists ==
    {l \in UNION {[1..n -> Tickers] : n \in 0..MaxTickers} :
        \A i, j \in 1..Len(l) : i # j => l[i] # l[j]}

\* A dispatch loop that goes on to the later handlers after a match and
\* invokes the last handler only.
AfterPredicateKeepsLooking(h, matched) ==
    IF h < NumHandlers THEN [pc |-> "dispatch", h |-> h + 1, resp |-> NoResponse]
    ELSE IF matched THEN [pc |-> "handle", h |-> h, resp |-> NoResponse]
    ELSE [pc |-> "done", h |-> h, resp |-> Http(500, "Unable to handle the question.")]

\* main.py:220-225: what the dispatch loop does after can_handle of handler h
AfterPredicate(h, matched) ==
    IF matched THEN [pc |-> "handle", h |-> h, resp |-> NoResponse]
    ELSE IF h < NumHandlers THEN [pc |-> "dispatch", h |-> h + 1, resp |-> NoResponse]
    ELSE [pc |-> "done", h |-> h, resp |-> Http(500, "Unable to handle the question.")]

\* A router that tries the next handler when an action fails.
RouterFallsThrough(h, out) ==
    IF out.kind # "result" /\ h < NumHandlers
    THEN [pc |-> "dispatch", h |-> h + 1, resp |-> NoResponse]
    ELSE [pc |-> "done", h |-> h, resp |-> out]

\* main.py:223: return handler.handle(tickers, question); whatever the
\* action returns or raises is the outcome of the request
RouterReturn(h, out) == [pc |-> "done", h |-> h, resp |-> out]

SetWorld(w) ==
    /\ docs' = w.docs
    /\ idxFile' = w.idx
    /\ metaFile' = w.meta
    /\ nbuilds' = w.nbuilds

indexCallVars == <<bpc, bloc, blast, qpc, qloc, qres, ndocops>>

\* main.py:175-182
AskStart(question, tickers) ==
    /\ apc = "idle"
    /\ areq' = [question |-> question, tickers |-> tickers]
    /\ IF tickers = <<>>
       THEN /\ aresp' = Http(400, "No tickers found in your question.")
            /\ apc' = "done"
       ELSE /\ aresp' = aresp
            /\ apc' = "help"
    /\ UNCHANGED <<cikMap, ati, ahi, evaluated, invoked, hcall>>
    /\ UNCHANGED <<indexVars, chunkVars, embedVars, xbrlVars, fetchVars>>

\* main.py:185-187
AskHelp ==
    /\ apc = "help"
    /\ IF HelpMatches(areq.question)
       THEN /\ aresp' = Result("help")
            /\ apc' = "done"
       ELSE /\ aresp' = aresp
            /\ apc' = "fact"
    /\ UNCHANGED <<cikMap, areq, ati, ahi, evaluated, invoked, hcall>>
    /\ UNCHANGED <<indexVars, chunkVars, embedVars, xbrlVars, fetchVars>>

\* A fact branch that goes on to the next step whatever the question is.
AskFactGoesOn(found) ==
    /\ apc = "fact"
    /\ apc' = "simple"
    /\ aresp' = aresp
    /\ UNCHANGED <<cikMap, areq, ati, ahi, evaluated, invoked, hcall>>
    /\ UNCHANGED <<indexVars, chunkVars, embedVars, xbrlVars, fetchVars>>

\* main.py:190-201; found: the company facts have the value
AskFact(found) ==
    /\ apc = "fact"
    /\ LET r == ExtractFactRequest(areq.question) IN
       IF r.tag # "None" /\ r.year # 0
       THEN /\ apc' = "done"
            /\ aresp' = IF areq.tickers[1] \notin cikMap THEN Http(404, "CIK not found")
                        ELSE IF found THEN Result("fact")
                        ELSE Http(404, "KeyError")
       ELSE /\ apc' = "simple"
            /\ aresp' = aresp
    /\ UNCHANGED <<cikMap, areq, ati, ahi, evaluated, invoked, hcall>>
    /\ UNCHANGED <<indexVars, chunkVars, embedVars, xbrlVars, fetchVars>>

\* main.py:204-206; matched: SimpleMetricHandler.can_handle(question)
AskSimple(matched) ==
    /\ apc = "simple"
    /\ IF matched
       THEN /\ aresp' = Result("simple metric")
            /\ apc' = "done"
       ELSE /\ aresp' = aresp
            /\ apc' = "ingest"
    /\ ati' = 1
    /\ UNCHANGED <<cikMap, areq, ahi, evaluated, invoked, hcall>>
    /\ UNCHANGED <<indexVars, chunkVars, embedVars, xbrlVars, fetchVars>>

\* main.py:209-217, one ticker of the loop: fetch_for_ticker, then
\* build_faiss_index_for_ticker(ticker, reset=False); neither is guarded
AskIngest(filing) ==
    /\ apc = "ingest"
    /\ LET t == areq.tickers[ati]
           f == FetchForTicker(docs[t], t, filing)
           b == BuildCall(f.dir, idxFile[t], metaFile[t], FALSE, nbuilds + 1)
       IN  /\ docs' = [docs EXCEPT ![t] = f.dir]
           /\ IF f.error # "none"
              THEN /\ aresp' = Raised(f.error)
                   /\ apc' = "done"
                   /\ UNCHANGED <<idxFile, metaFile, nbuilds, ati, ahi>>
              ELSE /\ idxFile' = [idxFile EXCEPT ![t] = b.idx]
                   /\ metaFile' = [metaFile EXCEPT ![t] = b.meta]
                   /\ nbuilds' = nbuilds + 1
                   /\ aresp' = aresp
                   /\ ati' = ati + 1
                   /\ ahi' = 1
                   /\ apc' = IF ati < Len(areq.tickers) THEN "ingest" ELSE "dispatch"
    /\ UNCHANGED <<cikMap, areq, evaluated, invoked, hcall>>
    /\ UNCHANGED <<indexCallVars, chunkVars, embedVars, xbrlVars, fetchVars>>

\* main.py:220-221 and 225: handler.can_handle(question) of the next handler
AskCanHandle ==
    /\ apc = "dispatch"
    /\ LET next == AfterPredicate(ahi, CanHandle(ahi, areq.question)) IN
       /\ apc' = next.pc
       /\ ahi' = next.h
       /\ aresp' = next.resp
    /\ evaluated' = Append(evaluated, ahi)
    /\ UNCHANGED <<cikMap, areq, ati, invoked, hcall>>
    /\ UNCHANGED <<indexVars, chunkVars, embedVars, xbrlVars, fetchVars>>

\* main.py:223: handler.handle(tickers, question)
AskHandle(filing, jsonOk) ==
    /\ apc = "handle"
    /\ LET r    == Handle(ahi, World, areq.tickers, areq.question, filing, jsonOk)
           next == RouterReturn(ahi, r.out)
       IN  /\ SetWorld(r.world)
           /\ hcall' = [h |-> ahi, via |-> "router", tickers |-> areq.tickers,
                        question |-> areq.question, out |-> r.out, lookups |-> r.lookups]
           /\ apc' = next.pc
           /\ ahi' = next.h
           /\ aresp' = next.resp
    /\ invoked' = Append(invoked, ahi)
    /\ UNCHANGED <<cikMap, areq, ati, evaluated>>
    /\ UNCHANGED <<indexCallVars, chunkVars, embedVars, xbrlVars, fetchVars>>

\* handle(tickers, text) called on handler h itself, with a text it can handle
DirectHandle(h, tickers, question, filing, jsonOk) ==
    /\ apc = "idle"
    /\ CanHandle(h, question)
    /\ LET r == Handle(h, World, tickers, question, filing, jsonOk) IN
       /\ SetWorld(r.world)
       /\ hcall' = [h |-> h, via |-> "direct", tickers |-> tickers,
                    question |-> question, out |-> r.out, lookups |-> r.lookups]
    /\ apc' = "called"
    /\ UNCHANGED <<cikMap, areq, ati, ahi, evaluated, invoked, aresp>>
    /\ UNCHANGED <<indexCallVars, chunkVars, embedVars, xbrlVars, fetchVars>>

\* A store as an earlier fetch left it, and the index and metadata an earlier
\* build made of it.
FetchedStore == WithFile(WithFile(EmptyDir, IndexJson, <<"a">>), "a.xml", <<"a", "b", "a">>)

BuiltIndex == BuildCall(FetchedStore, Absent, Absent, FALSE, 0)

\* What a request finds: nothing fetched yet, files fetched but no index,
\* files fetched and indexed; and the tickers the SEC ticker list knows.
AskWorlds ==
    {[docs |-> NoDir, idx |-> Absent, meta |-> Absent, cik |-> Tickers],
     [docs |-> FetchedStore, idx |-> Absent, meta |-> Absent, cik |-> Tickers],
     [docs |-> FetchedStore, idx |-> BuiltIndex.idx, meta |-> BuiltIndex.meta,
      cik |-> Tickers],
     [docs |-> FetchedStore, idx |-> BuiltIndex.idx, meta |-> BuiltIndex.meta,
      cik |-> {"AAPL"}]}

InitAsk ==
    /\ \E w \in AskWorlds :
          /\ docs = [t \in Tickers |-> w.docs]
          /\ idxFile = [t \in Tickers |-> w.idx]
          /\ metaFile = [t \in Tickers |-> w.meta]
          /\ cikMap = w.cik
    /\ bpc = [b \in Builders |-> "idle"]
    /\ bloc = [b \in Builders |-> IdleBuild]
    /\ blast = [t \in Tickers |-> "none"]
    /\ nbuilds = 0
    /\ qpc = "idle"
    /\ qloc = IdleQuery
    /\ qres = NoResult
    /\ ndocops = 0
    /\ InitChunkIdle
    /\ InitEmbedIdle /\ InitXbrlIdle /\ InitFetchIdle
    /\ apc = "idle"
    /\ areq = NoRequest
    /\ ati = 1
    /\ ahi = 1
    /\ evaluated = <<>>
    /\ invoked = <<>>
    /\ hcall = NoCall
    /\ aresp = NoResponse

NextAsk ==
    \/ /\ apc = "idle"
       /\ \E question \in Questions, tickers \in TickerLists : AskStart(question, tickers)
    \/ AskHelp
    \/ \E found \in BOOLEAN : AskFact(found)
    \/ \E matched \in BOOLEAN : AskSimple(matched)
    \/ \E filing \in Filings : AskIngest(filing)
    \/ AskCanHandle
    \/ \E filing \in Filings, jsonOk \in BOOLEAN : AskHandle(filing, jsonOk)

SpecAsk == InitAsk /\ [][NextAsk]_vars

----------------------------------------------------------------------------
(* Specification of the handlers' actions: handle(tickers, text) called on *)
(* each handler with every text it can handle.                             *)

NextHandle ==
    /\ apc = "idle"
    /\ \E h \in 1..NumHandlers, question \in Questions :
          /\ CanHandle(h, question)
          /\ \E tickers \in TickerLists, filing \in Filings, jsonOk \in BOOLEAN :
                DirectHandle(h, tickers, question, filing, jsonOk)

SpecHandle == InitAsk /\ [][NextHandle]_vars

----------------------------------------------------------------------------
(* _get_embedder, summarize.py:27-33, called by build (line 80) and query  *)
(* (line 118) calls that run on the threads of the pool                    *)
(* (run_in_threadpool, main.py:125, 215). The function takes no lock, so   *)
(* its lines interleave between threads.                                   *)

MaxEmbedCalls == 3

notEmbedVars == <<indexVars, chunkVars, askVars, xbrlVars, fetchVars>>

\* a build or query call on thread w reaches _get_embedder()
EmbedCall(w) ==
    /\ epc[w] = "idle"
    /\ ecalls < MaxEmbedCalls
    /\ ecalls' = ecalls + 1
    /\ epc' = [epc EXCEPT ![w] = "check"]
    /\ UNCHANGED <<_embedder, constructed, returned, eloc>>
    /\ UNCHANGED notEmbedVars

\* summarize.py:30: if _embedder is None
EmbedCheck(w) ==
    /\ epc[w] = "check"
    /\ epc' = [epc EXCEPT ![w] = IF _embedder = 0 THEN "construct" ELSE "return"]
    /\ UNCHANGED <<_embedder, constructed, returned, ecalls, eloc>>
    /\ UNCHANGED notEmbedVars

\* summarize.py:31-32, right-hand side: SentenceTransformer("all-MiniLM-L6-v2")
EmbedConstruct(w) ==
    /\ epc[w] = "construct"
    /\ constructed' = constructed + 1
    /\ eloc' = [eloc EXCEPT ![w] = constructed + 1]
    /\ epc' = [epc EXCEPT ![w] = "assign"]
    /\ UNCHANGED <<_embedder, returned, ecalls>>
    /\ UNCHANGED notEmbedVars

\* summarize.py:32: _embedder = <the new instance>
EmbedAssign(w) ==
    /\ epc[w] = "assign"
    /\ _embedder' = eloc[w]
    /\ eloc' = [eloc EXCEPT ![w] = 0]
    /\ epc' = [epc EXCEPT ![w] = "return"]
    /\ UNCHANGED <<constructed, returned, ecalls>>
    /\ UNCHANGED notEmbedVars

\* summarize.py:33: return _embedder
EmbedReturn(w) ==
    /\ epc[w] = "return"
    /\ returned' = returned \cup {_embedder}
    /\ epc' = [epc EXCEPT ![w] = "idle"]
    /\ UNCHANGED <<_embedder, constructed, ecalls, eloc>>
    /\ UNCHANGED notEmbedVars

InitEmbed == InitIndex({NoDir}) /\ InitChunkIdle /\ InitAskIdle /\ InitEmbedIdle /\ InitXbrlIdle /\ InitFetchIdle

NextEmbed ==
    \E w \in Workers :
        \/ EmbedCall(w)
        \/ EmbedCheck(w)
        \/ EmbedConstruct(w)
        \/ EmbedAssign(w)
        \/ EmbedReturn(w)

SpecEmbed == InitEmbed /\ [][NextEmbed]_vars

----------------------------------------------------------------------------
(* Specification of the structured facts: get_net_income_by_year called on *)
(* a store of instance files, and its parsing loop run on a document.      *)

\* get_net_income_by_year(t, year), extract_metrics.py:124-148
XbrlGetNetIncome(t, year) ==
    /\ xcall.op = "none"
    /\ xcall' = [NoXCall EXCEPT !.op = "get", !.t = t, !.year = year,
                                 !.res = GetNetIncomeByYear(t, year)]
    /\ UNCHANGED <<xfiles, xcase>>
    /\ UNCHANGED <<indexVars, chunkVars, askVars, embedVars, fetchVars>>

\* extract_metrics.py:139-148 on the document selected for a ticker and year,
\* as get_net_income_by_year runs them when the map holds lists of paths
\* (tests/test_extract_metrics.py:54-62)
XbrlParse(doc) ==
    /\ xcall.op = "none"
    /\ xfiles = {}
    /\ xcall' = [NoXCall EXCEPT !.op = "parse", !.doc = doc,
                                 !.res = NetIncomeOfDocument(doc)]
    /\ UNCHANGED <<xfiles, xcase>>
    /\ UNCHANGED <<indexVars, chunkVars, askVars, embedVars, fetchVars>>

\* get_profit_percentage_by_years(t1, t2), extract_metrics.py:166-185
XbrlProfitPercentage(t1, t2) ==
    /\ xcall.op = "none"
    /\ LET pct == GetProfitPercentageByYears(t1, t2) IN
       xcall' = [NoXCall EXCEPT !.op = "pct", !.t = t1, !.t2 = t2,
                                !.res = Fails(pct.error), !.years = pct.years]
    /\ UNCHANGED <<xfiles, xcase>>
    /\ UNCHANGED <<indexVars, chunkVars, askVars, embedVars, fetchVars>>

InitXbrl ==
    /\ InitIndex({NoDir}) /\ InitChunkIdle /\ InitAskIdle /\ InitEmbedIdle /\ InitFetchIdle
    /\ xfiles \in XbrlStores
    /\ xcase \in BOOLEAN
    /\ xcall = NoXCall

NextXbrl ==
    \/ \E t \in Tickers, year \in Years : XbrlGetNetIncome(t, year)
    \/ \E doc \in Documents : XbrlParse(doc)
    \/ \E t1, t2 \in Tickers : XbrlProfitPercentage(t1, t2)

SpecXbrl == InitXbrl /\ [][NextXbrl]_vars

----------------------------------------------------------------------------
(* Specification of the fetches: fetch_for_ticker called again and again,  *)
(* on stores that are empty or that an earlier run filled.                 *)

\* fetch_for_ticker(t), edgar_fetch.py:181-245, for what the source lists
FetchCall(t, filing) ==
    LET f == FetchForTicker(docs[t], t, filing) IN
    /\ docs' = [docs EXCEPT ![t] = f.dir]
    /\ fcall' = [t |-> t, filing |-> filing, error |-> f.error,
                 downloads |-> f.downloads, again |-> t \in fetched,
                 before |-> docs[t], after |-> f.dir]
    /\ fetched' = IF f.downloads > 0 THEN fetched \cup {t} ELSE fetched
    /\ UNCHANGED <<idxFile, metaFile, bpc, bloc, blast, nbuilds, qpc, qloc, qres, ndocops>>
    /\ UNCHANGED <<chunkVars, askVars, embedVars, xbrlVars, icall, freq>>

InitFetch ==
    /\ InitIndex({NoDir, EmptyDir, FetchedStore})
    /\ InitChunkIdle /\ InitEmbedIdle /\ InitXbrlIdle /\ InitFetchIdle
    /\ cikMap \in {Tickers, {"AAPL"}}
    /\ apc = "idle"
    /\ areq = NoRequest
    /\ ati = 1
    /\ ahi = 1
    /\ evaluated = <<>>
    /\ invoked = <<>>
    /\ hcall = NoCall
    /\ aresp = NoResponse

NextFetch == \E t \in Tickers, filing \in Filings : FetchCall(t, filing)

SpecFetch == InitFetch /\ [][NextFetch]_vars

----------------------------------------------------------------------------
(* POST /ingest, api/main.py:86-116.  A file name is the sequence of its    *)
(* pieces between "-" characters; an S3 key is edgar/<ticker>/<accession>/  *)
(* <fname>.                                                                *)

\* Accession numbers as get_latest_filings gives them, dashes removed
\* (edgar_fetch.py:114)
Accessions == {"0001", "0000320193"}

\* idx_name, edgar_fetch.py:206
IndexName(t, accession) == <<t, accession, "index.json">>

\* piece.startswith("0000")
StartsWith0000(piece) == piece \in {"0000320193", "0000320193.xml"}

\* piece.split(".", 1)[0]
BeforeDot(piece) ==
    CASE piece = "20230930.xml" -> "20230930"
      [] piece = "0001.xml" -> "0001"
      [] piece = "0000320193.xml" -> "0000320193"
      [] piece = "index.json" -> "index"
      [] piece = "R1.htm" -> "R1"
      [] OTHER -> piece

S3Key(ticker, accession, fname) ==
    [error |-> "none", ticker |-> ticker, accession |-> accession, fname |-> fname]

NoKey(error) == [error |-> error, ticker |-> "none", accession |-> "none", fname |-> <<>>]

\* The key fetch_for_ticker uploads a file of a filing under,
\* edgar_fetch.py:212, 229, 239
UploadKey(t, accession, name) == S3Key(t, accession, name)

\* The key /ingest reports for a returned path, main.py:102-114.  Unpacking
\* a split that found no "-" raises ValueError (lines 104 and 108).
IngestKey(name) ==
    IF Len(name) < 2
    THEN NoKey("ValueError")
    ELSE LET ticker == Head(name)
             rest   == Tail(name)
         IN  IF StartsWith0000(Head(rest)) \/ Len(rest) > 1
             THEN IF Len(rest) < 2
                  THEN NoKey("ValueError")
                  ELSE S3Key(ticker, Head(rest), Tail(rest))
             ELSE S3Key(ticker, BeforeDot(Head(rest)), name)

\* The paths a call of fetch_for_ticker returns (saved, edgar_fetch.py:198,
\* 210, 245): a call that downloads a filing ends at line 242 and returns
\* nothing, a call that finds the index file stored returns its path.
FetchSaved(f, t, accession) ==
    IF f.error = "none" /\ f.saved = 1 THEN <<IndexName(t, accession)>> ELSE <<>>

\* POST /ingest for ticker t, when the source lists the filing accession
IngestCall(t, filing, accession) ==
    LET f        == FetchForTicker(docs[t], t, filing)
        paths    == FetchSaved(f, t, accession)
        reported == [i \in 1..Len(paths) |-> IngestKey(paths[i])]
        status   == IF f.error = "ValueError" THEN 400
                    ELSE IF f.error # "none" THEN 500
                    ELSE IF \E i \in 1..Len(paths) : reported[i].error # "none" THEN 500
                    ELSE 200
    IN
    /\ docs' = [docs EXCEPT ![t] = f.dir]
    /\ fcall' = [t |-> t, filing |-> filing, error |-> f.error,
                 downloads |-> f.downloads, again |-> t \in fetched,
                 before |-> docs[t], after |-> f.dir]
    /\ fetched' = IF f.downloads > 0 THEN fetched \cup {t} ELSE fetched
    /\ icall' = [t |-> t, accession |-> accession, status |-> status,
                 paths |-> paths,
                 uploaded |-> [i \in 1..Len(paths) |-> UploadKey(t, accession, paths[i])],
                 reported |-> IF status = 200 THEN reported ELSE <<>>]
    /\ UNCHANGED <<idxFile, metaFile, bpc, bloc, blast, nbuilds, qpc, qloc, qres, ndocops>>
    /\ UNCHANGED <<chunkVars, askVars, embedVars, xbrlVars, freq>>

NextIngest ==
    \E t \in Tickers, filing \in Filings, accession \in Accessions :
        IngestCall(t, filing, accession)

SpecIngest == InitFetch /\ [][NextIngest]_vars

----------------------------------------------------------------------------
(* extract_fact_request on its own, for every question of FactQuestions *)

\* The call of line 343 with the question it was given
FactRequest ==
    /\ ~freq.called
    /\ LET r == ExtractFactRequest(freq.question) IN
       freq' = [called |-> TRUE, question |-> freq.question, tag |-> r.tag,
                year |-> r.year, period |-> r.period]
    /\ UNCHANGED <<indexVars, chunkVars, askVars, embedVars, xbrlVars, fcall, fetched, icall>>

InitFact ==
    /\ InitIndex({NoDir})
    /\ InitChunkIdle /\ InitAskIdle /\ InitEmbedIdle /\ InitXbrlIdle
    /\ fcall = NoFetchCall
    /\ fetched = {}
    /\ icall = NoIngestCall
    /\ freq \in {[NoFactCall EXCEPT !.question = q] : q \in FactQuestions}

NextFact == FactRequest

SpecFact == InitFact /\ [][NextFact]_vars

----------------------------------------------------------------------------
(* Claims *)

\* C1: a query that runs while a build of the same ticker is under way never
\* observes a partially written index: after the existence check it reads
\* neither a missing nor an incomplete file, and the index and the metadata
\* it loads were written by the same build.
LoadedPairConsistent(index, metadata) ==
    /\ index.state \in {"none", "written"}
    /\ metadata.state \in {"none", "written"}
    /\ (index.state = "written" /\ metadata.state = "written")
           => index.gen = metadata.gen

C1_QueryNeverSeesPartialIndex ==
    /\ LoadedPairConsistent(qloc.index, qloc.metadata)
    /\ LoadedPairConsistent(qres.index, qres.metadata)

\* C2: once a build call of a ticker has ended (returned or raised) and none
\* is running, the persisted index has as many vectors as the persisted
\* metadata has entries, and metadata[i] names the chunk vector i embeds.
NumVectors(file) == IF IsWritten(file) THEN Len(file.vectors) ELSE 0
NumEntries(file) == IF IsWritten(file) THEN Len(file.entries) ELSE 0

Positional(index, metadata) ==
    /\ index.state # "partial"
    /\ metadata.state # "partial"
    /\ NumVectors(index) = NumEntries(metadata)
    /\ \A i \in 1..NumVectors(index) :
          /\ metadata.entries[i].source = index.chunks[i].source
          /\ metadata.entries[i].chunk_index = index.chunks[i].chunk_index
          /\ index.vectors[i] = Embed(index.chunks[i].text)

BuildRunning(t) == \E b \in Builders : bpc[b] # "idle" /\ bloc[b].ticker = t

C2_PositionalAfterBuild ==
    \A t \in Tickers :
        (blast[t] # "none" /\ ~BuildRunning(t)) => Positional(idxFile[t], metaFile[t])

\* The first handler of ASK_HANDLERS whose can_handle accepts q, 0 if none does.
Matching(q) == {h \in 1..NumHandlers : CanHandle(h, q)}

FirstMatch(q) ==
    IF Matching(q) = {} THEN 0
    ELSE CHOOSE h \in Matching(q) : \A j \in Matching(q) : h <= j

\* C3: the dispatch loop of /ask evaluates the handlers in list order and
\* invokes the first one whose can_handle is true; once a handler matched,
\* no later handler is evaluated or invoked.
C3_FirstMatchWins ==
    /\ \A i \in 1..Len(evaluated) : evaluated[i] = i
    /\ \A i \in 1..(Len(evaluated) - 1) : ~CanHandle(i, areq.question)
    /\ Len(invoked) <= 1
    /\ invoked # <<>> =>
          /\ invoked[1] = FirstMatch(areq.question)
          /\ Len(evaluated) = invoked[1]

\* a question two handlers accept was dispatched to the earlier one
C3_Witness ==
    /\ apc = "done"
    /\ invoked = <<2>>
    /\ Cardinality(Matching(areq.question)) > 2

\* Exactly one handler of ASK_HANDLERS accepts every question, and it is the
\* last one.
FallbackIsOnlyTotalAndLast ==
    /\ \A q \in Questions : CanHandle(NumHandlers, q)
    /\ \A h \in 1..(NumHandlers - 1) : \E q \in Questions : ~CanHandle(h, q)

\* C4: ASK_HANDLERS holds exactly one handler whose predicate is always
\* true, in the last position, so no request ends with the HTTPException
\* 500 "Unable to handle the question." that follows the loop.
C4_FallbackLastLoopNeverFallsOut ==
    /\ FallbackIsOnlyTotalAndLast
    /\ aresp # Http(500, "Unable to handle the question.")
    /\ apc = "done" /\ evaluated # <<>> => invoked # <<>>

\* a question no other handler accepts went through the whole list and was
\* taken by the last handler
C4_Witness ==
    /\ apc = "done"
    /\ Len(evaluated) = NumHandlers
    /\ invoked = <<NumHandlers>>
    /\ Matching(areq.question) = {NumHandlers}

\* The handlers that are the first match of no question: every question they
\* accept is accepted by a handler before them.
ShadowedHandlers ==
    {h \in 1..NumHandlers : \A q \in Questions : FirstMatch(q) # h}

\* C5: no handler of ASK_HANDLERS is shadowed by the handlers ordered before
\* it: every handler that accepts the question of a request is the first
\* matching handler of at least one question.
C5_EveryHandlerIsAFirstMatch ==
    \A h \in Matching(areq.question) : h \notin ShadowedHandlers

\* C6: when the action of the matched handler raises, the request ends with
\* what the action raised, and no further handler is evaluated or invoked.
C6_ActionFailurePropagates ==
    (invoked # <<>> /\ hcall.via = "router" /\ hcall.out.kind # "result") =>
        /\ invoked = <<hcall.h>>
        /\ Len(evaluated) = hcall.h
        /\ apc = "done"
        /\ aresp = hcall.out

\* a matched handler before the last raised, and the request ended with it
C6_Witness ==
    /\ apc = "done"
    /\ invoked # <<>>
    /\ invoked[1] < NumHandlers
    /\ hcall.out.kind = "HTTPException"
    /\ aresp = hcall.out

\* C7: a request to /ask ends with a result or with an HTTPException.
C7_AskEndsWithResultOrHTTPException ==
    apc = "done" => aresp.kind \in {"result", "HTTPException"}

\* The handlers that compare two companies.
ComparisonHandlers ==
    {h \in 1..NumHandlers :
        ASK_HANDLERS[h] \in {"ProfitCompareHandler", "ProfitPctCompareHandler"}}

\* C8: a comparison handler called with fewer than two tickers fails with
\* an HTTPException of status 400 and looks up no structured fact.
C8_ComparisonNeedsTwoTickers ==
    (hcall.h \in ComparisonHandlers /\ Len(hcall.tickers) < 2) =>
        /\ hcall.out.kind = "HTTPException"
        /\ hcall.out.code = 400
        /\ hcall.lookups = 0

\* C9: the chunks produced for a document of length N at chunk size C are
\* the consecutive slices of the document, their concatenation is the
\* document, there are ceil(N/C) of them and chunk_index counts 0, 1, 2, ...
C9_ChunkCoverage ==
    cpc = "chunked" =>
        /\ Len(cout) = CeilDiv(Len(cdoc), csize)
        /\ Concat([k \in 1..Len(cout) |-> cout[k].text]) = cdoc
        /\ \A k \in 1..Len(cout) :
              /\ cout[k].chunk_index = k - 1
              /\ cout[k].text = Slice(cdoc, (k - 1) * csize, k * csize)

\* C10: on an unchanged document store, every snippet a query returns for a
\* hit equals the chunk text that was embedded at the hit's index position.
C10_SnippetIsEmbeddedChunk ==
    (/\ qres.status = "returned"
     /\ qres.index.gen = qres.metadata.gen
     /\ qres.store = qres.index.store)
        => \A k \in 1..Len(qres.snippets) :
              qres.snippets[k].hit >= 0 =>
                  qres.snippets[k].snippet
                      = qres.index.chunks[qres.snippets[k].hit + 1].text

\* C11: a query returns at most top_k snippets, each naming a chunk of the
\* index it searched; the chunks named are distinct, they are listed by
\* non-decreasing distance to the query embedding, and no chunk left out is
\* closer than one returned.
C11_TopKNearestInOrder ==
    (qres.status = "returned" /\ qres.index.gen = qres.metadata.gen) =>
        LET vs    == qres.index.vectors
            q     == Embed(qres.question)
            n     == Len(qres.snippets)
            Named(k) == {i \in 1..Len(vs) :
                            /\ qres.metadata.entries[i].source = qres.snippets[k].source
                            /\ qres.metadata.entries[i].chunk_index
                                   = qres.snippets[k].chunk_index}
            ChunkOf(k) == CHOOSE i \in Named(k) : TRUE
            Returned == {ChunkOf(k) : k \in 1..n}
        IN  /\ n <= TopK
            /\ \A k \in 1..n : Named(k) # {}
            /\ \A j, k \in 1..n : j # k => ChunkOf(j) # ChunkOf(k)
            /\ \A k \in 1..(n - 1) : Dist(vs[ChunkOf(k)], q) <= Dist(vs[ChunkOf(k + 1)], q)
            /\ \A k \in 1..n : \A i \in (1..Len(vs)) \ Returned :
                  Dist(vs[ChunkOf(k)], q) <= Dist(vs[i], q)

\* C12: a build of a ticker that has no source documents fails with
\* FileNotFoundError: no build call returns normally after finding no
\* eligible document in an existing directory.
C12_NoDocumentsIsNotFound ==
    \A t \in Tickers : ~BuildRunning(t) => blast[t] # "no_chunks"

\* C13: a query of a ticker whose index file or metadata file does not exist
\* ends at the existence check with RuntimeError: it loads nothing, embeds
\* nothing and reads no document.
C13_NotBuiltBeforeAnyRead ==
    /\ qpc # "idle" =>
          idxFile[qloc.ticker] # Absent /\ metaFile[qloc.ticker] # Absent
    /\ (qres.status # "none"
        /\ (idxFile[qres.ticker] = Absent \/ metaFile[qres.ticker] = Absent)) =>
          /\ qres.status = "raised"
          /\ qres.error = "RuntimeError"
          /\ qres.index = NotLoaded
          /\ qres.metadata = NotLoaded
          /\ qres.snippets = <<>>

\* a query of a ticker with metadata but no index file ended with RuntimeError
C13_Witness ==
    /\ qres.status = "raised"
    /\ qres.error = "RuntimeError"
    /\ idxFile[qres.ticker] = Absent
    /\ metaFile[qres.ticker] # Absent

\* C14: a query that finds the source document of one of its hits deleted
\* does not raise; it returns the empty sequence.
C14_DeletedSourceReturnsEmpty ==
    (IsWritten(qres.index) /\ IsWritten(qres.metadata)) =>
        LET hits == Search(qres.index.vectors, Embed(qres.question), TopK, {})
            n    == Len(qres.metadata.entries)
            Gone(k) ==
                /\ PyIndex(n, hits[k]) # 0
                /\ qres.store.files[qres.metadata.entries[PyIndex(n, hits[k])].source]
                       = NoFile
        IN  (\E k \in 1..Len(hits) : Gone(k)) =>
                qres.status = "returned" /\ qres.snippets = <<>>

\* C15: on an unchanged document store, once the builds of a ticker have
\* ended and the last to end has written its files, the index file and the
\* metadata file are both complete and were written by the same build call.
C15_ConcurrentBuildsLeaveOnePair ==
    \A t \in Tickers :
        (ndocops = 0 /\ ~BuildRunning(t) /\ blast[t] = "built") =>
            /\ IsWritten(idxFile[t])
            /\ IsWritten(metaFile[t])
            /\ idxFile[t].gen = metaFile[t].gen

\* C16: over the calls of _get_embedder the SentenceTransformer constructor
\* runs at most once, exactly once when a call has returned, and every call
\* returns the same instance.
C16_EmbedderConstructedOnce ==
    /\ constructed <= 1
    /\ returned # {} => constructed = 1
    /\ Cardinality(returned) <= 1

\* The element i of a document is named NetIncomeLoss, with or without a
\* namespace: the local name is the last piece of its tag.
NamedNetIncomeLoss(doc, i) == doc[i].tag[Len(doc[i].tag)] = "NetIncomeLoss"

\* The ticker has a stored instance for the year with a NetIncomeLoss value.
StoredNetIncome(t, year) ==
    \E f \in xfiles :
        /\ LowerSeq(f.stem) = LowerOf[t]
        /\ YearOf(f.date) = year
        /\ \E i \in 1..Len(f.doc) : NamedNetIncomeLoss(f.doc, i) /\ f.doc[i].text # <<>>

\* C17: a finished /ask request "<ticker> net income 2020", for a ticker with
\* a stored 2020 instance that has NetIncomeLoss, was answered by the
\* NetIncomeYearHandler, called by the dispatch loop, with the net income.
C17_NetIncomeQuestionAnsweredByXbrlParsing ==
    (/\ apc = "done"
     /\ areq.question = <<"net", "income", "2020">>
     /\ Len(areq.tickers) = 1
     /\ StoredNetIncome(areq.tickers[1], <<"2", "0", "2", "0">>))
    => /\ aresp = Result("net income")
       /\ invoked = <<1>>
       /\ hcall.via = "router" /\ ASK_HANDLERS[hcall.h] = "NetIncomeYearHandler"

\* C18 as stated: the parsing loop returns the text of the first element
\* named NetIncomeLoss, and None, without an exception, when the document has
\* no such element.
C18_FirstElementText ==
    xcall.op = "parse" =>
        LET named == {i \in 1..Len(xcall.doc) : NamedNetIncomeLoss(xcall.doc, i)} IN
        /\ xcall.res.error = "none"
        /\ named = {} => xcall.res = NotFound
        /\ named # {} =>
              xcall.res.text = xcall.doc[CHOOSE i \in named : \A j \in named : i <= j].text

\* C18, amended: the parsing loop returns the text, stripped of surrounding
\* white space, of the first element named NetIncomeLoss that has a text, and
\* None, without an exception, when the document has no such element.
C18_FirstElementWithTextStripped ==
    xcall.op = "parse" =>
        LET named == {i \in 1..Len(xcall.doc) :
                         NamedNetIncomeLoss(xcall.doc, i) /\ xcall.doc[i].text # <<>>}
        IN
        /\ xcall.res.error = "none"
        /\ named = {} => xcall.res = NotFound
        /\ named # {} =>
              /\ xcall.res.found
              /\ xcall.res.text =
                    Strip(xcall.doc[CHOOSE i \in named : \A j \in named : i <= j].text)

\* A document whose first NetIncomeLoss element has no text and whose second
\* has one with white space around it was parsed.
C18_Witness ==
    /\ xcall.op = "parse"
    /\ Len(xcall.doc) = 2
    /\ NamedNetIncomeLoss(xcall.doc, 1) /\ xcall.doc[1].text = <<>>
    /\ NamedNetIncomeLoss(xcall.doc, 2) /\ xcall.doc[2].text = <<" ", "7">>
    /\ xcall.res = Found(<<"7">>)

\* C19: get_net_income_by_year(t, Y) returns the NetIncomeLoss value of the
\* most recently dated year-end instance the store holds for t and Y, and
\* None, without an exception, when the store holds no instance of t for Y.
C19_YearEndInstanceIsRead ==
    xcall.op = "get" =>
        LET mine    == {f \in xfiles : /\ LowerSeq(f.stem) = LowerOf[xcall.t]
                                       /\ YearOf(f.date) = xcall.year}
            yearEnd == {f \in mine : StartsWith09(MonthDayOf(f.date))}
        IN
        /\ xcall.res.error = "none"
        /\ mine = {} => xcall.res = NotFound
        /\ yearEnd # {} =>
              \E f \in yearEnd :
                  /\ \A g \in yearEnd : DateNum(g.date) <= DateNum(f.date)
                  /\ xcall.res = NetIncomeOfDocument(f.doc)

\* C20: a fetch_for_ticker call for a ticker whose listed filing an earlier
\* call, now ended, has downloaded requests no index file and no component
\* file, and leaves the ticker's directory as it was.
C20_FetchedFilingIsNotDownloadedAgain ==
    (fcall.t # "none" /\ fcall.again /\ fcall.filing.listed)
    => fcall.downloads = 0 /\ fcall.after = fcall.before

\* A second call for a ticker whose filing, with its component, the first
\* call downloaded.
C20_Witness ==
    /\ fcall.t # "none" /\ fcall.again /\ fcall.filing.listed
    /\ fcall.filing.component # "none"
    /\ fcall.before.files[IndexJson] # NoFile
    /\ fcall.before.files["a.xml"] = <<fcall.filing.text>>
    /\ fcall.error = "none"

\* The ticker of the build call b that takes the step, when b takes it.
StepTicker(b) == IF bpc[b] = "idle" THEN bloc'[b].ticker ELSE bloc[b].ticker

\* C21: a step of a build call of ticker A, in any interleaving, leaves the
\* index file, the metadata file and the documents of every other ticker as
\* they are; and a query call of ticker B loads the files of B and reads the
\* documents of B.
C21_TickersAreIndependent ==
    [][/\ \A b \in Builders :
             bpc'[b] # bpc[b] =>
                 \A u \in Tickers \ {StepTicker(b)} :
                     /\ idxFile'[u] = idxFile[u]
                     /\ metaFile'[u] = metaFile[u]
                     /\ docs'[u] = docs[u]
       /\ (qpc = "load_idx" /\ qpc' = "load_meta") => qloc'.index = idxFile[qloc.ticker]
       /\ (qpc = "load_meta" /\ qpc' = "search") => qloc'.metadata = metaFile[qloc.ticker]
       /\ (qpc = "search" /\ qpc' = "idle") =>
             /\ qres'.store = docs[qloc.ticker]
             /\ qres'.snippets =
                   Snippets(Search(qloc.index.vectors, Embed(qloc.question), TopK, {}),
                            qloc.metadata.entries, docs[qloc.ticker], ChunkSize).snippets
      ]_vars

\* A build of AAPL has written its index and not yet its metadata while a
\* query of MSFT, whose files an earlier build wrote, is about to search.
C21_Witness ==
    /\ \E b \in Builders : bloc[b].ticker = "AAPL" /\ bpc[b] = "open_meta"
    /\ qpc = "search" /\ qloc.ticker = "MSFT"
    /\ IsWritten(idxFile["MSFT"]) /\ IsWritten(idxFile["AAPL"])

\* C22: a query call that loaded an index and a metadata file of different
\* lengths does not return snippets: it fails.
C22_LengthMismatchFailsTheQuery ==
    (/\ qres.status = "returned"
     /\ IsWritten(qres.index) /\ IsWritten(qres.metadata))
    => NumVectors(qres.index) = NumEntries(qres.metadata)

\* extract_fact_request finds a metric and a year in the question.
FactParsed(q) == ExtractFactRequest(q).tag # "None" /\ ExtractFactRequest(q).year # 0

StoredNonZero(t, year, name) ==
    \E f \in xfiles :
        /\ LowerSeq(f.stem) = LowerOf[t]
        /\ YearOf(f.date) = year
        /\ \E i \in 1..Len(f.doc) :
              /\ f.doc[i].tag[Len(f.doc[i].tag)] = name
              /\ IsDigits(Strip(f.doc[i].text))
              /\ DateNum(Strip(f.doc[i].text)) # 0

C25_IndexExistsIffMetadataExists ==
    \A t \in Tickers :
        ~BuildRunning(t) => (idxFile[t] = Absent <=> metaFile[t] = Absent)

\* A fetch call that ended without an error and listed the filing whose index
\* file, naming a component the source serves, was stored before the call.
ListsStoredFiling ==
    /\ fcall.t # "none" /\ fcall.error = "none"
    /\ fcall.filing.listed /\ fcall.filing.component # "none"
    /\ fcall.filing.served
    /\ fcall.before.files[IndexJson] = <<IndexText(fcall.filing)>>

\* C26: a stored index file never suppresses the download of the component
\* for good: when a fetch call that lists a filing whose index file is stored
\* ends without an error, the primary component of the filing is stored,
\* also when an earlier call wrote the index file and failed to download the
\* component.
C26_StoredIndexDoesNotSuppressComponent ==
    ListsStoredFiling => fcall.after.files[fcall.filing.component] # NoFile

\* What a build of the store dir leaves when no index was there before.
FreshBuild(dir) == BuildCall(dir, Absent, Absent, TRUE, 0)

\* C27: for a ticker with at least one eligible chunk, the build call that
\* completes leaves the index and the metadata that a build of the current
\* document store leaves when no index existed, whether reset is true or
\* false and whatever index was there before.
C27_BuildDependsOnStoreOnly ==
    [][\A b \in Builders :
          (bpc[b] = "write_meta" /\ bpc'[b] = "idle") =>
              LET t == bloc[b].ticker IN
              /\ FreshBuild(docs[t]).outcome = "built"
              /\ IsWritten(idxFile'[t]) /\ IsWritten(metaFile'[t])
              /\ idxFile'[t].vectors = FreshBuild(docs[t]).idx.vectors
              /\ idxFile'[t].chunks = FreshBuild(docs[t]).idx.chunks
              /\ metaFile'[t].entries = FreshBuild(docs[t]).meta.entries]_vars

\* A build with reset false has written the index over the index of an
\* earlier build of other documents, whose metadata is still there.
C27_Witness ==
    \E b \in Builders :
        /\ bpc[b] = "open_meta" /\ ~bloc[b].reset
        /\ idxFile[bloc[b].ticker].gen = bloc[b].gen
        /\ IsWritten(metaFile[bloc[b].ticker])
        /\ metaFile[bloc[b].ticker].gen < bloc[b].gen
        /\ Len(metaFile[bloc[b].ticker].entries) # Len(bloc[b].scanned)

\* C30: for every file that fetch_for_ticker returns, /ingest reports one
\* key, the key under which fetch_for_ticker uploaded the file, and that key
\* carries the ticker and the accession of the filing.
C30_IngestReportsUploadKeys ==
    icall.status = 200 =>
        /\ Len(icall.reported) = Len(icall.paths)
        /\ \A i \in 1..Len(icall.paths) :
               /\ icall.reported[i] = icall.uploaded[i]
               /\ icall.reported[i].ticker = icall.t
               /\ icall.reported[i].accession = icall.accession

\* C28: a query that returns, on an index of n chunks with the metadata of
\* the same build, returns min(top_k, n) snippets; no search position is
\* used twice, and none of the snippets comes from an unfilled slot (-1).
C28_MinOfTopKAndChunksSnippets ==
    (qres.status = "returned" /\ qres.index.gen = qres.metadata.gen) =>
        LET n == Len(qres.index.vectors)
            r == Len(qres.snippets)
        IN  /\ r = Min(TopK, n)
            /\ \A k \in 1..r : qres.snippets[k].hit # -1
            /\ \A j, k \in 1..r :
                   j # k => qres.snippets[j].hit # qres.snippets[k].hit

\* The tags of FACT_METRICS and their keywords.
MetricTags == {FACT_METRICS[m].tag : m \in 1..Len(FACT_METRICS)}
KeywordsOf(tag) ==
    UNION {FACT_METRICS[m].keywords : m \in {n \in 1..Len(FACT_METRICS) : FACT_METRICS[n].tag = tag}}

\* C29: extract_fact_request returns the tag whose keyword the question
\* contains, when the question contains no keyword of another tag other
\* than those that occur inside that keyword; and it returns no tag exactly
\* when the question contains no keyword of any tag.
C29_KeywordYieldsItsTag ==
    freq.called =>
        /\ \A tag \in MetricTags : \A kw \in KeywordsOf(tag) :
               (/\ KeywordIn(kw, freq.question)
                /\ \A other \in MetricTags \ {tag} : \A okw \in KeywordsOf(other) :
                       KeywordIn(okw, freq.question) => KeywordIn(okw, kw))
               => freq.tag = tag
        /\ freq.tag = "None"
               <=> \A tag \in MetricTags : \A kw \in KeywordsOf(tag) :
                      ~KeywordIn(kw, freq.question)
====
